---- MODULE Spec2Model ----
(***************************************************************************)
(* Model of the abstract-to-allocated program lowering of sway-core:       *)
(* AbstractProgram::into_allocated_program and its helpers                 *)
(* (sway-core/src/asm_generation/fuel/programs/abstract.rs).               *)
(*                                                                         *)
(* An Option<T> is a sequence of length 0 (None) or 1 (Some(x)).           *)
(* An instruction is a record [op, args, imm, label, data]: args are the   *)
(* register operands, imm the immediate operands, label the Label operand  *)
(* of a control-flow op, data the DataId operand of a data load.  The      *)
(* `comment` and `owning_span` fields of an op carry no behaviour and are  *)
(* left out.                                                               *)
(*                                                                         *)
(* A machine integer is the sequence of its bytes, least significant       *)
(* first: a u16 has 2 of them, a u32 4, a u64 8.  Widening appends zero    *)
(* bytes and narrowing drops the high ones, so every width is exact.       *)
(***************************************************************************)
EXTENDS Integers, Sequences, FiniteSets, TLC

\* ------------------------------------------------------------------ bounds
MaxEntries == 2
MaxNonEntries == 1
PoolSize == 2

\* --------------------------------------------------------------- constants
PRELUDE_METADATA_OFFSET_IN_BYTES == 16
PRELUDE_METADATA_SIZE_IN_BYTES == 32
PRELUDE_SIZE_IN_BYTES == 56
SELECTOR_WORD_OFFSET == 73
MISMATCHED_SELECTOR_REVERT_CODE == 123

\* -------------------------------------------------------- machine integers
RECURSIVE Limbs(_, _)
\* The w-byte integer of value n.
Limbs(n, w) == IF w = 0 THEN <<>> ELSE <<n % 256>> \o Limbs(n \div 256, w - 1)

RECURSIVE ToNat(_)
\* The value of an integer (small ones only: the checker's integers are 32 bit).
ToNat(x) == IF x = <<>> THEN 0 ELSE Head(x) + 256 * ToNat(Tail(x))

Reverse(s) == [k \in 1..Len(s) |-> s[Len(s) + 1 - k]]

\* `x as uN` with N = 8 * w: truncates or zero-extends.
Cast(x, w) == [k \in 1..w |-> IF k <= Len(x) THEN x[k] ELSE 0]
AsU64(x) == Cast(x, 8)
AsU32(x) == Cast(x, 4)
AsU16(x) == Cast(x, 2)

\* Variant: the first byte of the array is taken as the least significant.
U32FromLeBytes(b) == b

\* u32::from_be_bytes: the first byte of the array is the most significant.
U32FromBeBytes(b) == Reverse(b)

RECURSIVE AddCarry(_, _, _)
AddCarry(a, b, carry) ==
    IF a = <<>> THEN <<>>
    ELSE <<(Head(a) + Head(b) + carry) % 256>>
         \o AddCarry(Tail(a), Tail(b), (Head(a) + Head(b) + carry) \div 256)
\* Wrapping addition of two integers of the same width.
WrappingAdd(a, b) == AddCarry(a, b, 0)

\* ----------------------------------------------------------------- options
None == <<>>
Some(x) == <<x>>
IsSome(o) == Len(o) = 1
Unwrap(o) == o[1]

\* --------------------------------------------------------------- registers
ConstantRegisterNames ==
    <<"Zero", "Scratch", "ProgramCounter", "FramePointer", "DataSectionStart">>

ConstantRegister(name) ==
    [kind |-> "Constant",
     id |-> CHOOSE k \in DOMAIN ConstantRegisterNames : ConstantRegisterNames[k] = name]

Allocated(n) == [kind |-> "Allocated", id |-> n]
Virtual(n) == [kind |-> "Virtual", id |-> n]

INPUT_SELECTOR_REG == Allocated(0)
PROG_SELECTOR_REG == Allocated(1)
CMP_RESULT_REG == Allocated(2)

\* ------------------------------------------------------------ instructions
ControlFlowOps ==
    {"Jump", "JumpIfNotZero", "Call", "Label", "Comment", "Metadata",
     "DataSectionOffsetPlaceholder"}

Opcode(name, regs, imms) ==
    [op |-> name, args |-> regs, imm |-> imms, label |-> None, data |-> None]
ControlFlowOp(name, regs, l) ==
    [op |-> name, args |-> regs, imm |-> <<>>, label |-> l, data |-> None]
LoadDataId(r, id) ==
    [op |-> "LoadDataId", args |-> <<r>>, imm |-> <<>>, label |-> None, data |-> Some(id)]

Jump(l) == ControlFlowOp("Jump", <<>>, Some(l))
JumpIfNotZero(r, l) == ControlFlowOp("JumpIfNotZero", <<r>>, Some(l))
Call(l) == ControlFlowOp("Call", <<>>, Some(l))
Label(l) == ControlFlowOp("Label", <<>>, Some(l))
Comment == ControlFlowOp("Comment", <<>>, None)
Metadata == ControlFlowOp("Metadata", <<>>, None)
DataSectionOffsetPlaceholder == ControlFlowOp("DataSectionOffsetPlaceholder", <<>>, None)

IsLabelRef(o) == o.op \in {"Jump", "JumpIfNotZero", "Call"}
IsLabelDef(o) == o.op = "Label"

\* Size in bytes of each op of the preamble, as laid out in the doc comment
\* of build_prologue: one instruction is half a word, the data-section
\* offset a full word, the metadata four words, a label nothing.
OpSizeInBytes(o) ==
    CASE o.op = "DataSectionOffsetPlaceholder" -> 8
      [] o.op = "Metadata" -> PRELUDE_METADATA_SIZE_IN_BYTES
      [] o.op \in {"Label", "Comment"} -> 0
      [] OTHER -> 4

RECURSIVE SizeInBytes(_)
SizeInBytes(ops) ==
    IF ops = <<>> THEN 0
    ELSE OpSizeInBytes(Head(ops)) + SizeInBytes(Tail(ops))

\* Byte offset at which ops[k] starts.
OffsetOf(ops, k) == SizeInBytes(SubSeq(ops, 1, k - 1))


\* ------------------------------------------- collaborators outside abstract.rs
\* RegisterSequencer::get_label: the sequencer is a counter; it hands out
\* the current value as a fresh label and advances.
GetLabel(seqr) == [label |-> seqr, seqr |-> seqr + 1]

\* DataSection::insert_data_value(Entry::new_word(w)): appends the word and
\* returns the id (the index, from 0) under which it is referenced.
InsertDataValue(ds, w) == [data_section |-> Append(ds, w), id |-> Len(ds)]

\* GlobalsSection::len_in_bytes
LenInBytes(gs) == gs

\* Register operands an op reads and the one it writes: the first operand of
\* a data op is its destination, RET and JumpIfNotZero only read.
DefRegs(o) ==
    IF o.op \in ControlFlowOps \cup {"RET", "RVRT", "CFEI"} \/ o.args = <<>>
    THEN {} ELSE {o.args[1]}
UseRegs(o) ==
    IF o.op \in {"RET", "RVRT", "JumpIfNotZero"}
    THEN {o.args[k] : k \in DOMAIN o.args}
    ELSE {o.args[k] : k \in DOMAIN o.args \ {1}}

VirtualRegs(ops) ==
    {r \in UNION {DefRegs(ops[k]) \cup UseRegs(ops[k]) : k \in DOMAIN ops} :
        r.kind = "Virtual"}

IsRedundantMove(o) == o.op = "MOVE" /\ o.args[1] = o.args[2]

\* AbstractInstructionSet::optimize: a peephole pass; it drops moves of a
\* register onto itself.  Idempotent, adds no label reference.
Optimize(ops, ds) == SelectSeq(ops, LAMBDA o : ~IsRedundantMove(o))

LabelDefCount(ops, l) == Cardinality({k \in DOMAIN ops : IsLabelDef(ops[k]) /\ ops[k].label = Some(l)})

\* AbstractInstructionSet::verify: every virtual register that is read is
\* written somewhere in the set, and every local jump target is defined
\* exactly once in the set (a Call leaves the set, so its target is not the
\* set's to define).  Returns the set unchanged or an error.
VerifyOk(ops) ==
    /\ \A k \in DOMAIN ops : \A r \in UseRegs(ops[k]) :
           r.kind = "Virtual" => \E j \in DOMAIN ops : r \in DefRegs(ops[j])
    /\ \A k \in DOMAIN ops :
           ops[k].op \in {"Jump", "JumpIfNotZero"} => LabelDefCount(ops, Unwrap(ops[k].label)) = 1

\* AbstractInstructionSet::allocate_registers: every virtual register gets
\* its own register of the pool, numbered in order of the virtual ids;
\* fails when the pool is too small.
AllocateOk(ops) == Cardinality(VirtualRegs(ops)) <= PoolSize

\* Variant: every virtual register gets the first register of the pool.
RegisterMap_Shared(ops, r) ==
    IF r.kind = "Virtual" THEN Allocated(0) ELSE r

RegisterMap(ops, r) ==
    IF r.kind = "Virtual"
    THEN Allocated(Cardinality({v \in VirtualRegs(ops) : v.id < r.id}))
    ELSE r

AllocateRegisters(ops) ==
    [k \in DOMAIN ops |->
        [ops[k] EXCEPT !.args = [a \in DOMAIN ops[k].args |-> RegisterMap(ops, ops[k].args[a])]]]

\* The allocated registers the ops name, lowest number first.
AllocatedRegs(ops) ==
    {r \in UNION {{ops[k].args[a] : a \in DOMAIN ops[k].args} : k \in DOMAIN ops} :
        r.kind = "Allocated"}

RECURSIVE Ascending(_)
Ascending(regs) ==
    IF regs = {} THEN <<>>
    ELSE LET least == CHOOSE r \in regs : \A q \in regs : r.id <= q.id
         IN <<least>> \o Ascending(regs \ {least})

\* AllocatedAbstractInstructionSet::emit_pusha_popa: brackets the function
\* with the save and the restore of the allocated registers it uses.
EmitPushaPopa(ops) ==
    <<Opcode("PUSHA", Ascending(AllocatedRegs(ops)), <<>>)>>
    \o ops
    \o <<Opcode("POPA", Ascending(AllocatedRegs(ops)), <<>>)>>

\* ------------------------------------------------------ inputs of the model
ProgramKind == {"Script", "Predicate", "Contract", "Library"}

Selectors == {<<0, 0, 0, 1>>, <<1, 0, 0, 0>>}
SelectorOpt == {None} \cup {Some(b) : b \in Selectors}
FnNames == {"__entry", "main"}
Qualities == {"good", "bad_verify", "bad_alloc"}

\* Words the caller may put in the selector slot of the call frame: the two
\* selectors widened big-endian, one word no entry has, and one that agrees
\* with a selector in its low 32 bits only.
InputWords ==
    {AsU64(U32FromBeBytes(b)) : b \in Selectors}
    \cup {Limbs(5, 8), <<1, 0, 0, 0, 1, 0, 0, 0>>}

\* The instructions of a function body of the given quality.  A good body
\* defines what it reads and fits the pool; pair is a good body that keeps
\* two registers live at once; bad_verify reads a register
\* nothing writes; bad_alloc needs one register more than the pool has.
BodyOps(q) ==
    CASE q = "good" ->
           <<Opcode("MOVI", <<Virtual(0)>>, <<Limbs(0, 4)>>),
             Opcode("MOVE", <<Virtual(0), Virtual(0)>>, <<>>),
             Opcode("ADD", <<Virtual(0), Virtual(0), Virtual(0)>>, <<>>)>>
      [] q = "pair" ->
           <<Opcode("MOVI", <<Virtual(0)>>, <<Limbs(1, 4)>>),
             Opcode("MOVI", <<Virtual(1)>>, <<Limbs(2, 4)>>),
             Opcode("ADD", <<Virtual(0), Virtual(0), Virtual(1)>>, <<>>)>>
      [] q = "bad_verify" ->
           <<Opcode("ADD", <<Virtual(0), Virtual(1), Virtual(1)>>, <<>>)>>
      [] q = "bad_alloc" ->
           [k \in 1..(PoolSize + 1) |-> Opcode("MOVI", <<Virtual(k - 1)>>, <<Limbs(k, 4)>>)]

FunctionBody(l, q) ==
    <<Label(l)>> \o BodyOps(q) \o <<Opcode("RET", <<Virtual(0)>>, <<>>)>>

\* Labels are handed out by the sequencer before lowering starts: one per
\* entry, one per non-entry function and one that was issued but never
\* placed.  `descending` reverses the order in which they were issued.
LabelOf(k, total, descending) == IF descending THEN total - k ELSE k - 1

MakeEntry(k, total, descending, sel, name, q) ==
    [selector |-> sel,
     label |-> LabelOf(k, total, descending),
     ops |-> FunctionBody(LabelOf(k, total, descending), q),
     name |-> name,
     test_decl_ref |-> IF sel = None /\ name # "__entry" THEN Some(k) ELSE None]

\* Globals size, initial data section, before-entries block and label order
\* are varied together.
Variants ==
    {[globals |-> Limbs(0, 8), data |-> <<>>, before |-> <<>>, descending |-> FALSE, non_entries |-> 0],
     [globals |-> Limbs(16, 8), data |-> <<Limbs(42, 8)>>, before |-> BodyOps("good"), descending |-> TRUE,
      non_entries |-> MaxNonEntries]}

VARIABLES
    kind, data_section, globals_section, before_entries, entries, non_entries,
    reg_seqr, new_encoding,         \* the fields of the AbstractProgram (self)
    fallback_fn,                    \* the argument of into_allocated_program
    data_section0,                  \* the data section as it was passed in
    pc, idx,                        \* position in into_allocated_program, loop index
    prologue,                       \* the local `prologue`
    entries_meta,                   \* the local `entries`
    abstract_functions, functions,  \* the two collected vectors
    result,                         \* what into_allocated_program returned
    exec                            \* outcome of running the prologue on the VM

self_vars == <<kind, globals_section, before_entries, entries, non_entries,
               new_encoding, fallback_fn, data_section0>>
lowering_vars == <<kind, data_section, globals_section, before_entries, entries,
                   non_entries, reg_seqr, new_encoding, fallback_fn, data_section0, pc,
                   idx, prologue, entries_meta, abstract_functions, functions, result,
                   exec>>

\* The Namespace of semantic analysis
\* (sway-core/src/semantic_analysis/namespace/namespace.rs).
VARIABLES
    root,                           \* Namespace.root
    current_mod_path,               \* Namespace.current_mod_path
    is_contract_package,            \* Namespace.is_contract_package
    submodule_namespaces,           \* the live SubmoduleNamespace values, oldest first
    ns_pc,                          \* "ready", or "panic" once a call has panicked
    last_call                       \* the last Namespace call and what it returned

namespace_vars == <<root, current_mod_path, is_contract_package, submodule_namespaces,
                    ns_pc, last_call>>

\* Transaction signing of forc-client (forc-plugins/forc-client/src/util/tx.rs).
VARIABLES
    inputs, outputs, witnesses,     \* the TransactionBuilder (self)
    wallet_exists, vault,           \* the wallet file, and the accounts it holds or would hold
    chain,                          \* the balances the provider reports for each address
    wallet_mode, default_sign, signing_key,   \* the arguments of finalize_signed
    accounts, account_balances, base_asset_id, selections, account_index,
    secret_key,                     \* locals of select_secret_key
    selected_key, address, signature_witness_index, tx,
    signature,                      \* locals of finalize_signed
    tx_pc,                          \* position in the call
    tx_result,                      \* what the call returned
    prompts                         \* the questions asked of the user, with the answers

builder_vars == <<inputs, outputs, witnesses>>
env_vars == <<wallet_exists, vault, chain>>
arg_vars == <<wallet_mode, default_sign, signing_key>>
select_vars == <<accounts, account_balances, base_asset_id, selections, account_index,
                 secret_key>>
finalize_vars == <<selected_key, address, signature_witness_index, tx, signature>>
tx_vars == <<builder_vars, env_vars, arg_vars, select_vars, finalize_vars, tx_pc, tx_result,
             prompts>>

\* What a step of the lowering leaves alone.
outside_lowering == <<namespace_vars, tx_vars>>

vars == <<lowering_vars, namespace_vars, tx_vars>>

NoResult == [tag |-> "None"]
NoExec == [outcome |-> "none"]

\* The state right after AbstractProgram::new, before into_allocated_program.
InitWith(k, enc, fb, v, es, nes, before) ==
    /\ kind = k
    /\ new_encoding = enc
    /\ fallback_fn = fb
    /\ globals_section = v.globals
    /\ data_section = v.data
    /\ data_section0 = v.data
    /\ before_entries = before
    /\ entries = es
    /\ non_entries = nes
    /\ reg_seqr = Len(es) + Len(nes) + 1
    /\ pc = "build_prologue"
    /\ idx = 0
    /\ prologue = <<>>
    /\ entries_meta = <<>>
    /\ abstract_functions = <<>>
    /\ functions = <<>>
    /\ result = NoResult
    /\ exec = NoExec

\* Programs whose bodies are all well formed; selectors, names, fallback and
\* encoding vary freely.
InitDispatch ==
    \E k \in ProgramKind, enc \in BOOLEAN, v \in Variants, n \in 0..MaxEntries :
    \E sel \in [1..n -> SelectorOpt], name \in [1..n -> FnNames] :
    LET total == n + v.non_entries
        es == [j \in 1..n |-> MakeEntry(j, total, v.descending, sel[j], name[j], "good")]
        nes == [j \in 1..v.non_entries |->
                   FunctionBody(LabelOf(n + j, total, v.descending), "good")]
        fbs == {None, Some(total)}
               \cup (IF nes = <<>> THEN {} ELSE {Some(LabelOf(total, total, v.descending))})
    IN \E fb \in fbs : InitWith(k, enc, fb, v, es, nes, v.before)

\* Programs of a fixed shape whose before-entries block and function bodies
\* may each be ill formed.
InitFailure ==
    \E k \in ProgramKind, enc \in BOOLEAN, n \in 0..MaxEntries, m \in 0..MaxNonEntries :
    \E q \in [1..(n + m) -> Qualities], qb \in Qualities \cup {"empty"} :
    LET v == CHOOSE w \in Variants : w.data = <<>>
        es == [j \in 1..n |->
                  MakeEntry(j, n + m, FALSE,
                            IF j = 1 THEN Some(<<0, 0, 0, 1>>) ELSE Some(<<1, 0, 0, 0>>),
                            IF j = 1 THEN "__entry" ELSE "main", q[j])]
        nes == [j \in 1..m |-> FunctionBody(LabelOf(n + j, n + m, FALSE), q[n + j])]
    IN InitWith(k, enc, None, v, es, nes, IF qb = "empty" THEN <<>> ELSE BodyOps(qb))

\* Byte lengths of the globals section: none, two words, and one that
\* needs more than 32 bits (2^32 + 8).
GlobalsSizes == {Limbs(0, 8), Limbs(16, 8), <<8, 0, 0, 0, 1, 0, 0, 0>>}

\* Programs of at most one entry and one non-entry function, where each of
\* entries, non-entry functions, data section and before-entries block is
\* empty or not independently of the others, for every kind, flag and
\* globals size.
InitSmall ==
    \E k \in ProgramKind, enc \in BOOLEAN, g \in GlobalsSizes :
    \E n \in 0..1, m \in 0..1, d \in {<<>>, <<Limbs(42, 8)>>}, b \in {<<>>, BodyOps("good")} :
    \E q \in {"good", "pair"} :
    LET v == [globals |-> g, data |-> d]
        es == [j \in 1..n |-> MakeEntry(j, n + m, FALSE, None, "__entry", q)]
        nes == [j \in 1..m |-> FunctionBody(LabelOf(n + j, n + m, FALSE), q)]
    IN InitWith(k, enc, None, v, es, nes, b)

InitLowering == InitDispatch \/ InitFailure \/ InitSmall

\* --------------------------------------------------------------- Namespace
\* Bounds: elements of the longest module path entered, and live
\* SubmoduleNamespace values.
MaxPathLen == 3
MaxSubmoduleNamespaces == 2

PackageNames == {"P", "Q"}
ModuleNames == {"a", "b"}

\* Root::new: the root knows the current package and the modules of it that
\* exist, each by its absolute path; a new package has its root module only.
RootNew(package_name) ==
    [current_package_name |-> package_name, modules |-> {<<package_name>>}]

\* Root::next_package: the next package becomes the current one.
RootNextPackage(r, next_package_name) == RootNew(next_package_name)

\* Root::current_package_name, and the name of the root module, which is
\* that of its package.
CurrentPackageName(r) == r.current_package_name
RootModuleName(r) == r.current_package_name

\* Root::module_mut_in_current_package: the module at the path, if any.
ModuleInCurrentPackage(r, mod_path) == mod_path \in r.modules

\* A call as last_call keeps it: its name, its arguments and what it returned.
Returned(op, arg, value) == [op |-> op, arg |-> arg, value |-> value]
Unit == "()"

\* The state after Namespace::new(package_name, contract_id) returned Ok.
NamespaceNew(package_name, contract_id) ==
    /\ root = RootNew(package_name)
    /\ current_mod_path = <<package_name>>
    /\ is_contract_package = IsSome(contract_id)
    /\ submodule_namespaces = <<>>
    /\ ns_pc = "ready"
    /\ last_call = Returned("new", <<package_name, contract_id>>, "Ok")

InitNamespace ==
    \E package_name \in PackageNames, contract_id \in {None, Some("0x01")} :
        NamespaceNew(package_name, contract_id)

\* -------------------------------------------------------- forc-client tx.rs
\* Bounds: the highest account index, balance maps passed to the
\* formatter, and inputs added to a transaction builder.
MaxAccountIndex == 2
MaxBalances == 2
MaxAdded == 3

\* add_contract: "limit of 256 inputs exceeded".
InputsLimit == 256
\* u16::MAX, the highest witness index.
MaxWitnessIndex == 65535

\* Divisor of format_base_asset_account_balances.
UnitsPerEth == 1000000000

AccountIndices == 0..MaxAccountIndex
\* The Bech32 address of the account derived at an index.
AddressOf(ix) == <<"fuel1", ix>>

Assets == {"base", "other_asset"}
Amounts == {1, 250000000}
\* HashMap<String, u64>: the assets an account holds, with the amounts.
BalanceMaps == UNION {[held -> Amounts] : held \in SUBSET Assets}
\* BTreeMap<usize, Bech32Address>
AccountsMaps == {[ix \in held |-> AddressOf(ix)] : held \in SUBSET AccountIndices}

NoBuilder == inputs = <<>> /\ outputs = <<>> /\ witnesses = <<>>
NoWallet == wallet_exists = FALSE /\ vault = <<>> /\ chain = <<>>
NoArguments == wallet_mode = "Manual" /\ default_sign = FALSE /\ signing_key = None
SelectLocalsUnset ==
    /\ accounts = <<>> /\ account_balances = <<>> /\ base_asset_id = "base"
    /\ selections = <<>> /\ account_index = None /\ secret_key = None
FinalizeLocalsUnset ==
    /\ selected_key = None /\ address = None /\ signature_witness_index = None
    /\ tx = None /\ signature = None
NothingReturned == tx_result = [tag |-> "None"] /\ prompts = <<>>

\* No transaction is being built.
TxIdle ==
    /\ NoBuilder /\ NoWallet /\ NoArguments /\ SelectLocalsUnset /\ FinalizeLocalsUnset
    /\ tx_pc = "idle" /\ NothingReturned

Init == InitLowering /\ NamespaceNew("P", None) /\ TxIdle

\* ---------------------------------------------------------------- is_empty
Bool(b) == [tag |-> "Bool", value |-> b]

\* Variant: the data section is not looked at.
IsEmpty_IgnoreData ==
    /\ pc = "build_prologue"
    /\ result' = Bool(non_entries = <<>> /\ entries = <<>>)
    /\ UNCHANGED <<outside_lowering, self_vars, data_section, reg_seqr, pc, idx, prologue, entries_meta,
                   abstract_functions, functions, exec>>

\* is_empty borrows the program, so it is called before the lowering
\* consumes it.
IsEmpty ==
    /\ pc = "build_prologue"
    /\ result' = Bool(non_entries = <<>> /\ entries = <<>> /\ data_section = <<>>)
    /\ UNCHANGED <<outside_lowering, self_vars, data_section, reg_seqr, pc, idx, prologue, entries_meta,
                   abstract_functions, functions, exec>>

\* -------------------------------------------------- into_allocated_program
Ok(program) == [tag |-> "Ok", program |-> program]
Err(stage, fn) == [tag |-> "Err", error |-> [stage |-> stage, fn |-> fn]]

\* Variant: the metadata block comes before the data-section offset.
PrologueOps_MetadataFirst(label) ==
    <<Opcode("MOVE", <<ConstantRegister("Scratch"), ConstantRegister("ProgramCounter")>>, <<>>),
      Jump(label),
      Metadata,
      DataSectionOffsetPlaceholder,
      Label(label),
      Opcode("LW", <<ConstantRegister("DataSectionStart"), ConstantRegister("Scratch")>>,
             <<AsU16(Limbs(1, 8))>>),
      Opcode("ADD", <<ConstantRegister("DataSectionStart"), ConstantRegister("DataSectionStart"),
                      ConstantRegister("Scratch")>>, <<>>)>>

\* The seven ops build_prologue returns for the label it drew.
PrologueOps(label) ==
    <<Opcode("MOVE", <<ConstantRegister("Scratch"), ConstantRegister("ProgramCounter")>>, <<>>),
      Jump(label),
      DataSectionOffsetPlaceholder,
      Metadata,
      Label(label),
      Opcode("LW", <<ConstantRegister("DataSectionStart"), ConstantRegister("Scratch")>>,
             <<AsU16(Limbs(1, 8))>>),
      Opcode("ADD", <<ConstantRegister("DataSectionStart"), ConstantRegister("DataSectionStart"),
                      ConstantRegister("Scratch")>>, <<>>)>>

BuildPrologue ==
    /\ pc = "build_prologue"
    /\ LET g == GetLabel(reg_seqr)
       IN /\ reg_seqr' = g.seqr
          /\ prologue' = PrologueOps(g.label)
    /\ pc' = "globals"
    /\ result' = NoResult
    /\ UNCHANGED <<outside_lowering, self_vars, data_section, idx, entries_meta, abstract_functions,
                   functions, exec>>

\* Variant: the reservation is put in front of the preamble.
AppendGlobalsAllocation_Front ==
    /\ pc = "globals"
    /\ LET len_in_bytes == LenInBytes(globals_section)
       IN prologue' = <<Opcode("CFEI", <<>>, <<AsU32(len_in_bytes)>>)>> \o prologue
    /\ pc' = "before_entries"
    /\ UNCHANGED <<outside_lowering, self_vars, data_section, reg_seqr, idx, entries_meta,
                   abstract_functions, functions, result, exec>>

AppendGlobalsAllocation ==
    /\ pc = "globals"
    /\ LET len_in_bytes == LenInBytes(globals_section)
       IN prologue' = Append(prologue, Opcode("CFEI", <<>>, <<AsU32(len_in_bytes)>>))
    /\ pc' = "before_entries"
    /\ UNCHANGED <<outside_lowering, self_vars, data_section, reg_seqr, idx, entries_meta,
                   abstract_functions, functions, result, exec>>

AppendBeforeEntries ==
    /\ pc = "before_entries"
    /\ LET optimized == Optimize(before_entries, data_section)
       IN IF ~VerifyOk(optimized)
          THEN /\ result' = Err("verify", 0)
               /\ pc' = "err"
               /\ UNCHANGED prologue
          ELSE IF ~AllocateOk(optimized)
          THEN /\ result' = Err("allocate", 0)
               /\ pc' = "err"
               /\ UNCHANGED prologue
          ELSE /\ prologue' = prologue \o AllocateRegisters(optimized)
               /\ pc' = "dispatch"
               /\ UNCHANGED result
    /\ UNCHANGED <<outside_lowering, self_vars, data_section, reg_seqr, idx, entries_meta,
                   abstract_functions, functions, exec>>

\* Variant: the lookup yields the first entry whenever some entry has the name.
FindEntry_Front(es, name) ==
    IF \E k \in DOMAIN es : es[k].name = name THEN Some(1) ELSE None

\* entries.iter().find(|x| x.name == "__entry"): the index of the first
\* entry of that name, or None.
FindEntry(es, name) ==
    IF \E k \in DOMAIN es : es[k].name = name
    THEN Some(CHOOSE k \in DOMAIN es :
                 es[k].name = name /\ \A j \in 1..(k - 1) : es[j].name # name)
    ELSE None

\* (true, Contract): find(..).unwrap() panics when there is no such entry.
AppendJumpToEntry ==
    /\ pc = "dispatch"
    /\ new_encoding /\ kind = "Contract"
    /\ LET found == FindEntry(entries, "__entry")
       IN IF IsSome(found)
          THEN /\ prologue' = Append(prologue, Jump(entries[Unwrap(found)].label))
               /\ pc' = "snapshot"
          ELSE /\ pc' = "panic"
               /\ UNCHANGED prologue
    /\ UNCHANGED <<outside_lowering, self_vars, data_section, reg_seqr, idx, entries_meta,
                   abstract_functions, functions, result, exec>>

\* The ops pushed before the loop: the comment and the load of the input
\* selector from the call frame.
AbiSwitchHead ==
    <<Comment,
      Opcode("LW", <<INPUT_SELECTOR_REG, ConstantRegister("FramePointer")>>,
             <<AsU16(Limbs(SELECTOR_WORD_OFFSET, 8))>>)>>

\* Variant: the comparison jumps on the input selector register.
AbiSwitchCaseOps_JumpOnInput(entry, data_label) ==
    <<LoadDataId(PROG_SELECTOR_REG, data_label),
      Opcode("EQ", <<CMP_RESULT_REG, INPUT_SELECTOR_REG, PROG_SELECTOR_REG>>, <<>>),
      JumpIfNotZero(INPUT_SELECTOR_REG, entry.label)>>

\* Variant: the comparison is emitted before the constant is loaded.
AbiSwitchCaseOps_CompareFirst(entry, data_label) ==
    <<Opcode("EQ", <<CMP_RESULT_REG, INPUT_SELECTOR_REG, PROG_SELECTOR_REG>>, <<>>),
      LoadDataId(PROG_SELECTOR_REG, data_label),
      JumpIfNotZero(CMP_RESULT_REG, entry.label)>>

\* The three ops of one case: load the constant, compare, jump if equal.
AbiSwitchCaseOps(entry, data_label) ==
    <<LoadDataId(PROG_SELECTOR_REG, data_label),
      Opcode("EQ", <<CMP_RESULT_REG, INPUT_SELECTOR_REG, PROG_SELECTOR_REG>>, <<>>),
      JumpIfNotZero(CMP_RESULT_REG, entry.label)>>

\* Variant: the fallback is never called.
AbiSwitchTail_NoFallback(fallback) ==
    <<Opcode("MOVI", <<ConstantRegister("Scratch")>>, <<Limbs(MISMATCHED_SELECTOR_REVERT_CODE, 4)>>),
      Opcode("RVRT", <<ConstantRegister("Scratch")>>, <<>>)>>

\* The ops pushed after the loop: the call of the fallback, if any, and the
\* revert with the mismatch code.
AbiSwitchTail(fallback) ==
    (IF IsSome(fallback) THEN <<Call(Unwrap(fallback))>> ELSE <<>>)
    \o <<Opcode("MOVI", <<ConstantRegister("Scratch")>>, <<Limbs(MISMATCHED_SELECTOR_REVERT_CODE, 4)>>),
         Opcode("RVRT", <<ConstantRegister("Scratch")>>, <<>>)>>

\* Variant: the old-encoding arm of the match does not look at the kind.
AbiSwitchBegin_AnyKind ==
    /\ pc = "dispatch"
    /\ ~new_encoding
    /\ prologue' = prologue \o AbiSwitchHead
    /\ idx' = 1
    /\ pc' = "abi_switch"
    /\ UNCHANGED <<outside_lowering, self_vars, data_section, reg_seqr, entries_meta, abstract_functions,
                   functions, result, exec>>

\* (false, Contract): the part of the switch before the loop.
AbiSwitchBegin ==
    /\ pc = "dispatch"
    /\ ~new_encoding /\ kind = "Contract"
    /\ prologue' = prologue \o AbiSwitchHead
    /\ idx' = 1
    /\ pc' = "abi_switch"
    /\ UNCHANGED <<outside_lowering, self_vars, data_section, reg_seqr, entries_meta, abstract_functions,
                   functions, result, exec>>

\* Variant: an entry without a selector gets a case for the zero selector.
AbiSwitchCase_NoSkip ==
    /\ pc = "abi_switch"
    /\ idx <= Len(entries)
    /\ LET entry == entries[idx]
           selector == IF entry.selector = None THEN <<0, 0, 0, 0>> ELSE Unwrap(entry.selector)
           ins == InsertDataValue(data_section, AsU64(U32FromBeBytes(selector)))
       IN /\ data_section' = ins.data_section
          /\ prologue' = prologue \o AbiSwitchCaseOps(entry, ins.id)
    /\ idx' = idx + 1
    /\ UNCHANGED <<outside_lowering, self_vars, reg_seqr, pc, entries_meta, abstract_functions,
                   functions, result, exec>>

\* One iteration of `for entry in &self.entries`.
AbiSwitchCase ==
    /\ pc = "abi_switch"
    /\ idx <= Len(entries)
    /\ LET entry == entries[idx]
       IN IF entry.selector = None
          THEN UNCHANGED <<data_section, prologue>>
          ELSE LET selector == Unwrap(entry.selector)
                   ins == InsertDataValue(data_section, AsU64(U32FromBeBytes(selector)))
               IN /\ data_section' = ins.data_section
                  /\ prologue' = prologue \o AbiSwitchCaseOps(entry, ins.id)
    /\ idx' = idx + 1
    /\ UNCHANGED <<outside_lowering, self_vars, reg_seqr, pc, entries_meta, abstract_functions,
                   functions, result, exec>>

\* The part of the switch after the loop.
AbiSwitchEnd ==
    /\ pc = "abi_switch"
    /\ idx > Len(entries)
    /\ prologue' = prologue \o AbiSwitchTail(fallback_fn)
    /\ pc' = "snapshot"
    /\ UNCHANGED <<outside_lowering, self_vars, data_section, reg_seqr, idx, entries_meta,
                   abstract_functions, functions, result, exec>>

\* `_ => {}`
NoDispatch ==
    /\ pc = "dispatch"
    /\ kind # "Contract"
    /\ pc' = "snapshot"
    /\ UNCHANGED <<outside_lowering, self_vars, data_section, reg_seqr, idx, prologue, entries_meta,
                   abstract_functions, functions, result, exec>>

\* Variant: the reference to the test declaration is not carried over.
EntryMeta_NoTestDecl(entry) ==
    [selector |-> entry.selector, label |-> entry.label, name |-> entry.name,
     test_decl_ref |-> None]

EntryMeta(entry) ==
    [selector |-> entry.selector, label |-> entry.label, name |-> entry.name,
     test_decl_ref |-> entry.test_decl_ref]

SnapshotEntries ==
    /\ pc = "snapshot"
    /\ entries_meta' = [k \in DOMAIN entries |-> EntryMeta(entries[k])]
    /\ idx' = 1
    /\ pc' = "verify"
    /\ UNCHANGED <<outside_lowering, self_vars, data_section, reg_seqr, prologue, abstract_functions,
                   functions, result, exec>>

\* Variant: the non-entry functions come first.
AllFunctions_NonEntriesFirst == non_entries \o [k \in DOMAIN entries |-> entries[k].ops]

\* entries' bodies chained with the non-entry functions.
AllFunctions == [k \in DOMAIN entries |-> entries[k].ops] \o non_entries

\* Variant: each function is allocated right after it is verified.
VerifyFunction_AllocateEarly ==
    /\ pc = "verify"
    /\ idx <= Len(AllFunctions)
    /\ LET optimized == Optimize(AllFunctions[idx], data_section)
       IN IF ~VerifyOk(optimized)
          THEN /\ result' = Err("verify", idx)
               /\ pc' = "err"
               /\ UNCHANGED <<abstract_functions, idx>>
          ELSE IF ~AllocateOk(optimized)
          THEN /\ result' = Err("allocate", idx)
               /\ pc' = "err"
               /\ UNCHANGED <<abstract_functions, idx>>
          ELSE /\ abstract_functions' = Append(abstract_functions, optimized)
               /\ idx' = idx + 1
               /\ UNCHANGED <<pc, result>>
    /\ UNCHANGED <<outside_lowering, self_vars, data_section, reg_seqr, prologue, entries_meta, functions, exec>>

\* Variant: a function that fails verification is dropped and the rest go on.
VerifyFunction_SkipFailed ==
    /\ pc = "verify"
    /\ idx <= Len(AllFunctions)
    /\ LET optimized == Optimize(AllFunctions[idx], data_section)
       IN IF VerifyOk(optimized)
          THEN abstract_functions' = Append(abstract_functions, optimized)
          ELSE UNCHANGED abstract_functions
    /\ idx' = idx + 1
    /\ UNCHANGED <<pc, result>>
    /\ UNCHANGED <<outside_lowering, self_vars, data_section, reg_seqr, prologue, entries_meta, functions, exec>>

\* One element of the optimize/verify iterator; collect stops at the first Err.
VerifyFunction ==
    /\ pc = "verify"
    /\ idx <= Len(AllFunctions)
    /\ LET optimized == Optimize(AllFunctions[idx], data_section)
       IN IF VerifyOk(optimized)
          THEN /\ abstract_functions' = Append(abstract_functions, optimized)
               /\ idx' = idx + 1
               /\ UNCHANGED <<pc, result>>
          ELSE /\ result' = Err("verify", idx)
               /\ pc' = "err"
               /\ UNCHANGED <<abstract_functions, idx>>
    /\ UNCHANGED <<outside_lowering, self_vars, data_section, reg_seqr, prologue, entries_meta, functions, exec>>

FunctionsVerified ==
    /\ pc = "verify"
    /\ idx > Len(AllFunctions)
    /\ idx' = 1
    /\ pc' = "allocate"
    /\ UNCHANGED <<outside_lowering, self_vars, data_section, reg_seqr, prologue, entries_meta,
                   abstract_functions, functions, result, exec>>

\* One element of the allocation iterator.
\* Variant: the allocated function is returned without the save/restore.
AllocateFunction_NoWrap ==
    /\ pc = "allocate"
    /\ idx <= Len(abstract_functions)
    /\ LET abstract_instruction_set == abstract_functions[idx]
       IN IF AllocateOk(abstract_instruction_set)
          THEN /\ functions' = Append(functions, AllocateRegisters(abstract_instruction_set))
               /\ idx' = idx + 1
               /\ UNCHANGED <<pc, result>>
          ELSE /\ result' = Err("allocate", idx)
               /\ pc' = "err"
               /\ UNCHANGED <<functions, idx>>
    /\ UNCHANGED <<outside_lowering, self_vars, data_section, reg_seqr, prologue, entries_meta,
                   abstract_functions, exec>>

AllocateFunction ==
    /\ pc = "allocate"
    /\ idx <= Len(abstract_functions)
    /\ LET abstract_instruction_set == abstract_functions[idx]
       IN IF AllocateOk(abstract_instruction_set)
          THEN /\ functions' =
                     Append(functions, EmitPushaPopa(AllocateRegisters(abstract_instruction_set)))
               /\ idx' = idx + 1
               /\ UNCHANGED <<pc, result>>
          ELSE /\ result' = Err("allocate", idx)
               /\ pc' = "err"
               /\ UNCHANGED <<functions, idx>>
    /\ UNCHANGED <<outside_lowering, self_vars, data_section, reg_seqr, prologue, entries_meta,
                   abstract_functions, exec>>

\* Variant: the program returned carries the data section as it was given.
ReturnOk_InputData ==
    /\ pc = "allocate"
    /\ idx > Len(abstract_functions)
    /\ result' = Ok([kind |-> kind, data_section |-> data_section0, prologue |-> prologue,
                     functions |-> functions, entries |-> entries_meta])
    /\ pc' = "done"
    /\ UNCHANGED <<outside_lowering, self_vars, data_section, reg_seqr, idx, prologue, entries_meta,
                   abstract_functions, functions, exec>>

ReturnOk ==
    /\ pc = "allocate"
    /\ idx > Len(abstract_functions)
    /\ result' = Ok([kind |-> kind, data_section |-> data_section, prologue |-> prologue,
                     functions |-> functions, entries |-> entries_meta])
    /\ pc' = "done"
    /\ UNCHANGED <<outside_lowering, self_vars, data_section, reg_seqr, idx, prologue, entries_meta,
                   abstract_functions, functions, exec>>

\* ------------------------------------------- running the lowered prologue
\* What each emitted instruction does when the VM runs the prologue of a
\* call whose frame holds `input` in its selector slot.  A jump to a label
\* the prologue defines continues there; a jump to any other label leaves
\* the prologue.  A called fallback either returns or keeps control.
Registers(ops) == UNION {{ops[k].args[a] : a \in DOMAIN ops[k].args} : k \in DOMAIN ops}

LabelPosition(ops, l) ==
    IF \E k \in DOMAIN ops : ops[k] = Label(l)
    THEN Some(CHOOSE k \in DOMAIN ops : ops[k] = Label(l) /\ \A j \in 1..(k - 1) : ops[j] # Label(l))
    ELSE None

Outcome(what, target, code, called, input) ==
    [outcome |-> what, target |-> target, code |-> code, called |-> called, input |-> input]

RECURSIVE Run(_, _, _, _, _, _, _, _)
Run(ops, ds, ip, regs, called, input, fallback_returns, fuel) ==
    IF fuel = 0 THEN Outcome("timeout", None, None, called, input)
    ELSE IF ip > Len(ops) THEN Outcome("fallthrough", None, None, called, input)
    ELSE
    LET o == ops[ip]
        next(r) == Run(ops, ds, ip + 1, r, called, input, fallback_returns, fuel - 1)
        goto(l) == IF IsSome(LabelPosition(ops, l))
                   THEN Run(ops, ds, Unwrap(LabelPosition(ops, l)), regs, called, input,
                            fallback_returns, fuel - 1)
                   ELSE Outcome("jump", Some(l), None, called, input)
    IN CASE o.op \in {"Metadata", "DataSectionOffsetPlaceholder"} ->
              Outcome("trap", None, None, called, input)
         [] o.op = "MOVE" -> next([regs EXCEPT ![o.args[1]] = regs[o.args[2]]])
         [] o.op = "MOVI" -> next([regs EXCEPT ![o.args[1]] = AsU64(o.imm[1])])
         [] o.op = "ADD" ->
              next([regs EXCEPT ![o.args[1]] = WrappingAdd(regs[o.args[2]], regs[o.args[3]])])
         [] o.op = "LW" ->
              next([regs EXCEPT ![o.args[1]] =
                        IF o.args[2] = ConstantRegister("FramePointer")
                           /\ ToNat(o.imm[1]) = SELECTOR_WORD_OFFSET
                        THEN input ELSE Limbs(0, 8)])
         [] o.op = "LoadDataId" -> next([regs EXCEPT ![o.args[1]] = ds[Unwrap(o.data) + 1]])
         [] o.op = "EQ" ->
              next([regs EXCEPT ![o.args[1]] =
                        IF regs[o.args[2]] = regs[o.args[3]] THEN Limbs(1, 8) ELSE Limbs(0, 8)])
         [] o.op = "Jump" -> goto(Unwrap(o.label))
         [] o.op = "JumpIfNotZero" ->
              IF regs[o.args[1]] # Limbs(0, 8) THEN goto(Unwrap(o.label)) ELSE next(regs)
         [] o.op = "Call" ->
              IF fallback_returns
              THEN Run(ops, ds, ip + 1, regs, Append(called, Unwrap(o.label)), input,
                       fallback_returns, fuel - 1)
              ELSE Outcome("diverted", Some(Unwrap(o.label)), None,
                           Append(called, Unwrap(o.label)), input)
         [] o.op = "RVRT" -> Outcome("revert", None, Some(regs[o.args[1]]), called, input)
         [] OTHER -> next(regs)

RunPrologue(program, input, fallback_returns) ==
    Run(program.prologue, program.data_section, 1,
        [r \in Registers(program.prologue) |-> Limbs(0, 8)], <<>>, input, fallback_returns,
        Len(program.prologue) + 1)

\* A contract call arrives at the lowered program.
Execute ==
    /\ pc = "done"
    /\ \E input \in InputWords, fallback_returns \in BOOLEAN :
          exec' = RunPrologue(result.program, input, fallback_returns)
    /\ pc' = "executed"
    /\ UNCHANGED <<outside_lowering, self_vars, data_section, reg_seqr, idx, prologue, entries_meta,
                   abstract_functions, functions, result>>

Next ==
    \/ IsEmpty
    \/ BuildPrologue
    \/ AppendGlobalsAllocation
    \/ AppendBeforeEntries
    \/ AppendJumpToEntry
    \/ AbiSwitchBegin
    \/ AbiSwitchCase
    \/ AbiSwitchEnd
    \/ NoDispatch
    \/ SnapshotEntries
    \/ VerifyFunction
    \/ FunctionsVerified
    \/ AllocateFunction
    \/ ReturnOk
    \/ Execute

Spec == Init /\ [][Next]_vars

TypeOK ==
    /\ kind \in ProgramKind
    /\ new_encoding \in BOOLEAN
    /\ pc \in {"build_prologue", "globals", "before_entries", "dispatch", "abi_switch",
               "snapshot", "verify", "allocate", "done", "err", "panic", "executed"}
    /\ result.tag \in {"None", "Bool", "Ok", "Err"}
    /\ root.current_package_name \in PackageNames
    /\ \A k \in DOMAIN current_mod_path : current_mod_path[k] \in PackageNames \cup ModuleNames
    /\ is_contract_package \in BOOLEAN
    /\ Len(submodule_namespaces) <= MaxSubmoduleNamespaces
    /\ ns_pc \in {"ready", "panic"}

\* ======================================================= Namespace
lowering_idle == UNCHANGED <<lowering_vars, tx_vars>>

\* next_package: the path is reset to the root module of the next package
\* before the contract id is bound, which is the one step that can fail.
NextPackage ==
    /\ ns_pc = "ready"
    /\ \E next_package_name \in PackageNames, contract_id \in {None, Some("0x01")},
          bound \in BOOLEAN :
          /\ root' = RootNextPackage(root, next_package_name)
          /\ current_mod_path' = <<CurrentPackageName(root')>>
          /\ is_contract_package' = IsSome(contract_id)
          /\ last_call' = Returned("next_package", <<next_package_name, contract_id>>,
                                   IF IsSome(contract_id) /\ ~bound THEN "Err" ELSE "Ok")
    /\ UNCHANGED <<submodule_namespaces, ns_pc>>
    /\ lowering_idle

\* What module_is_submodule_of returns for the namespace self and the
\* arguments; the absolute path is not empty.
ModuleIsSubmoduleOf(self, absolute_module_path, true_if_same) ==
    LET root_name == RootModuleName(self.root)
        package_name == Head(absolute_module_path)
        modules == Tail(absolute_module_path)
    IN IF root_name # package_name THEN FALSE
       ELSE IF Len(self.current_mod_path) < Len(modules) THEN FALSE
       ELSE LET is_submodule ==
                    \A k \in 1..Len(modules) : modules[k] = self.current_mod_path[k]
            IN IF is_submodule
               THEN IF Len(self.current_mod_path) = Len(modules) THEN true_if_same ELSE TRUE
               ELSE FALSE

\* The absolute module paths asked about: none (against the contract of
\* the call), a package, a module of it, a module of that module.
AbsolutePaths ==
    {<<>>}
    \cup {<<p>> : p \in PackageNames}
    \cup {<<p, m>> : p \in PackageNames, m \in ModuleNames}
    \cup {<<p, m, n>> : p \in PackageNames, m \in ModuleNames, n \in ModuleNames}

CallModuleIsSubmoduleOf ==
    /\ ns_pc = "ready"
    /\ \E absolute_module_path \in AbsolutePaths, true_if_same \in BOOLEAN :
          IF absolute_module_path = <<>>
          THEN /\ ns_pc' = "panic"
               /\ last_call' = Returned("module_is_submodule_of",
                                        <<absolute_module_path, true_if_same>>, "panic")
          ELSE /\ ns_pc' = ns_pc
               /\ last_call' =
                     Returned("module_is_submodule_of", <<absolute_module_path, true_if_same>>,
                              ModuleIsSubmoduleOf([root |-> root,
                                                   current_mod_path |-> current_mod_path],
                                                  absolute_module_path, true_if_same))
    /\ UNCHANGED <<root, current_mod_path, is_contract_package, submodule_namespaces>>
    /\ lowering_idle

\* Module::mod_path of the submodule entered: Module::new is given the
\* name and the path of the parent.
SubmodulePath(parent_mod_path, mod_name) == Append(parent_mod_path, mod_name)

\* enter_submodule: looks the current module up, finds the submodule or
\* makes one (which it does not add to the current module), and swaps the
\* path for the submodule's; the SubmoduleNamespace returned keeps the
\* parent path.
EnterSubmodule ==
    /\ ns_pc = "ready"
    /\ Len(current_mod_path) < MaxPathLen
    /\ Len(submodule_namespaces) < MaxSubmoduleNamespaces
    /\ \E mod_name \in ModuleNames :
          IF ~ModuleInCurrentPackage(root, current_mod_path)
          THEN /\ ns_pc' = "panic"
               /\ last_call' = Returned("enter_submodule", mod_name, "panic")
               /\ UNCHANGED <<current_mod_path, submodule_namespaces>>
          ELSE LET parent_mod_path == current_mod_path
               IN /\ current_mod_path' = SubmodulePath(current_mod_path, mod_name)
                  /\ submodule_namespaces' = Append(submodule_namespaces, parent_mod_path)
                  /\ last_call' = Returned("enter_submodule", mod_name, parent_mod_path)
                  /\ ns_pc' = ns_pc
    /\ UNCHANGED <<root, is_contract_package>>
    /\ lowering_idle

\* Drop of the newest SubmoduleNamespace: the path goes back to the parent
\* path it kept.
DropSubmoduleNamespace ==
    /\ ns_pc = "ready"
    /\ submodule_namespaces # <<>>
    /\ LET newest == Len(submodule_namespaces)
       IN /\ current_mod_path' = submodule_namespaces[newest]
          /\ submodule_namespaces' = SubSeq(submodule_namespaces, 1, newest - 1)
          /\ last_call' = Returned("drop", <<>>, Unit)
    /\ UNCHANGED <<root, is_contract_package, ns_pc>>
    /\ lowering_idle

\* push_new_submodule: enter_submodule, whose SubmoduleNamespace is dropped
\* on the spot (`let _ =`), so that the path is the parent path again when
\* the call returns.  last_call.value is the path before the call.
PushNewSubmodule ==
    /\ ns_pc = "ready"
    /\ Len(current_mod_path) < MaxPathLen
    /\ \E mod_name \in ModuleNames :
          IF ~ModuleInCurrentPackage(root, current_mod_path)
          THEN /\ ns_pc' = "panic"
               /\ last_call' = Returned("push_new_submodule", mod_name, "panic")
               /\ UNCHANGED current_mod_path
          ELSE LET parent_mod_path == current_mod_path
                   entered == SubmodulePath(current_mod_path, mod_name)
               IN /\ current_mod_path' = parent_mod_path
                  /\ last_call' = Returned("push_new_submodule", mod_name, current_mod_path)
                  /\ ns_pc' = ns_pc
    /\ UNCHANGED <<root, is_contract_package, submodule_namespaces>>
    /\ lowering_idle

\* pop_submodule: Vec::pop, which leaves an empty path empty.
PopSubmodule ==
    /\ ns_pc = "ready"
    /\ current_mod_path' = SubSeq(current_mod_path, 1, Len(current_mod_path) - 1)
    /\ last_call' = Returned("pop_submodule", <<>>, current_mod_path)
    /\ UNCHANGED <<root, is_contract_package, submodule_namespaces, ns_pc>>
    /\ lowering_idle

\* A caller adds a submodule to the current module through
\* current_module_mut, which panics when the path names no module.
InsertSubmodule ==
    /\ ns_pc = "ready"
    /\ Len(current_mod_path) < MaxPathLen
    /\ \E mod_name \in ModuleNames :
          IF ~ModuleInCurrentPackage(root, current_mod_path)
          THEN /\ ns_pc' = "panic"
               /\ last_call' = Returned("current_module_mut", mod_name, "panic")
               /\ UNCHANGED root
          ELSE /\ root' = [root EXCEPT !.modules = @ \cup {SubmodulePath(current_mod_path, mod_name)}]
               /\ last_call' = Returned("current_module_mut", mod_name, Unit)
               /\ ns_pc' = ns_pc
    /\ UNCHANGED <<current_mod_path, is_contract_package, submodule_namespaces>>
    /\ lowering_idle

NextNamespace ==
    \/ NextPackage
    \/ CallModuleIsSubmoduleOf
    \/ EnterSubmodule
    \/ DropSubmoduleNamespace
    \/ PushNewSubmodule
    \/ PopSubmodule
    \/ InsertSubmodule

LoweringNotStarted ==
    \E v \in Variants : v.data = <<>> /\ InitWith("Library", FALSE, None, v, <<>>, <<>>, <<>>)

InitSpecNamespace == InitNamespace /\ LoweringNotStarted /\ TxIdle

SpecNamespace == InitSpecNamespace /\ [][NextNamespace]_vars

\* ======================================================= forc-client tx.rs
outside_tx == <<lowering_vars, namespace_vars>>

\* The keys of a BTreeMap in the order its iterator yields them.
RECURSIVE AscendingKeys(_)
AscendingKeys(keys) ==
    IF keys = {} THEN <<>>
    ELSE LET least == CHOOSE k \in keys : \A j \in keys : k <= j
         IN <<least>> \o AscendingKeys(keys \ {least})

RECURSIVE FractionDigits(_, _)
\* The decimal digits of fraction / 10^places, without the zeros at the end.
FractionDigits(fraction, places) ==
    IF fraction = 0 THEN <<>>
    ELSE LET scale == 10 ^ (places - 1)
         IN <<fraction \div scale>> \o FractionDigits(fraction % scale, places - 1)

\* `base_asset_amount as f64 / 1_000_000_000.0` as Display prints it: the
\* whole part and the digits after the point (none for a whole number).
\* Exact for amounts below 2^31, where the quotient has at most ten
\* significant digits.
EthAmount(base_asset_amount) ==
    [whole |-> base_asset_amount \div UnitsPerEth,
     fraction |-> FractionDigits(base_asset_amount % UnitsPerEth, 9)]

\* format!("[{ix}] {address} - {eth_amount} ETH")
Line(ix, addr, eth_amount) == <<"[", ix, "] ", addr, " - ", eth_amount, " ETH">>

Min(a, b) == IF a <= b THEN a ELSE b

\* Variant: an account without the base asset shows another asset it holds.
FormatBaseAssetAccountBalances_AnyAsset(accounts_map, balances, base) ==
    LET keys == AscendingKeys(DOMAIN accounts_map)
    IN [i \in 1..Min(Len(keys), Len(balances)) |->
           LET ix == keys[i]
               balance == balances[i]
               base_asset_amount ==
                   IF base \in DOMAIN balance THEN balance[base]
                   ELSE IF DOMAIN balance # {}
                   THEN balance[CHOOSE asset \in DOMAIN balance : TRUE]
                   ELSE 0
           IN Line(ix, accounts_map[ix], EthAmount(base_asset_amount))]

\* format_base_asset_account_balances: zip stops at the shorter of the two.
FormatBaseAssetAccountBalances(accounts_map, balances, base) ==
    LET keys == AscendingKeys(DOMAIN accounts_map)
    IN [i \in 1..Min(Len(keys), Len(balances)) |->
           LET ix == keys[i]
               balance == balances[i]
               base_asset_amount == IF base \in DOMAIN balance THEN balance[base] ELSE 0
           IN Line(ix, accounts_map[ix], EthAmount(base_asset_amount))]

\* The arguments of a call of format_base_asset_account_balances.
InitFormat ==
    /\ accounts \in AccountsMaps
    /\ \E n \in 0..MaxBalances : account_balances \in [1..n -> BalanceMaps]
    /\ base_asset_id \in Assets
    /\ selections = <<>> /\ account_index = None /\ secret_key = None
    /\ NoBuilder /\ NoWallet /\ NoArguments /\ FinalizeLocalsUnset
    /\ tx_pc = "format" /\ NothingReturned

CallFormatBaseAssetAccountBalances ==
    /\ tx_pc = "format"
    /\ selections' = FormatBaseAssetAccountBalances(accounts, account_balances, base_asset_id)
    /\ tx_result' = [tag |-> "Lines", value |-> selections']
    /\ tx_pc' = "formatted"
    /\ UNCHANGED <<builder_vars, env_vars, arg_vars, accounts, account_balances, base_asset_id,
                   account_index, secret_key, finalize_vars, prompts, outside_tx>>

NextFormat == CallFormatBaseAssetAccountBalances

InitSpecFormat == InitFormat /\ LoweringNotStarted /\ NamespaceNew("P", None)

SpecFormat == InitSpecFormat /\ [][NextFormat]_vars

\* ------------------------------------------------- TransactionBuilderExt
ContractInput(contract_id) == [type |-> "Contract", contract_id |-> contract_id]
CoinInput(utxo, witness_index) ==
    [type |-> "Coin", utxo |-> utxo, witness_index |-> witness_index]
MessageInput(nonce, witness_index) ==
    [type |-> "Message", nonce |-> nonce, witness_index |-> witness_index]
ContractOutput(input_index) == [type |-> "Contract", input_index |-> input_index]
ChangeOutput(to, asset_id) == [type |-> "Change", to |-> to, asset_id |-> asset_id]

\* An input the builder had before the calls modelled here, and the
\* inputs it has got since.
OldInput == CoinInput("old", 0)
Added == Cardinality({k \in DOMAIN inputs : inputs[k] # OldInput})

ContractIds == {"c1", "c2"}
NewInputs == {CoinInput("new", 0), ContractInput("c1")}
UpTo(n, S) == UNION {[1..k -> S] : k \in 0..n}

Builder(ins, outs) == [panicked |-> FALSE, inputs |-> ins, outputs |-> outs]

\* Variant: the index is taken after the input has been added.
AddContractTo_IndexAfter(b, contract_id) ==
    IF b.panicked \/ Len(b.inputs) >= InputsLimit
    THEN [b EXCEPT !.panicked = TRUE]
    ELSE LET added == Append(b.inputs, ContractInput(contract_id))
         IN Builder(added, Append(b.outputs, ContractOutput(Len(added))))

\* add_contract on the builder b: the index of the input to come is the
\* number of inputs, which must fit the index type; then the contract
\* input and the contract output naming it are appended.
AddContractTo(b, contract_id) ==
    IF b.panicked \/ Len(b.inputs) >= InputsLimit
    THEN [b EXCEPT !.panicked = TRUE]
    ELSE LET input_index == Len(b.inputs)
         IN Builder(Append(b.inputs, ContractInput(contract_id)),
                    Append(b.outputs, ContractOutput(input_index)))

RECURSIVE AddContractsTo(_, _)
AddContractsTo(b, contract_ids) ==
    IF contract_ids = <<>> THEN b
    ELSE AddContractsTo(AddContractTo(b, Head(contract_ids)), Tail(contract_ids))

Self(call, arg) == [tag |-> "Self", call |-> call, arg |-> arg]

\* The builder after a call that returned b, or the panic.
BuilderBecomes(b, call, arg) ==
    /\ inputs' = b.inputs
    /\ outputs' = b.outputs
    /\ IF b.panicked
       THEN tx_pc' = "panic" /\ tx_result' = [tag |-> "Panic", call |-> call, arg |-> arg]
       ELSE tx_pc' = tx_pc /\ tx_result' = Self(call, arg)
    /\ UNCHANGED <<witnesses, env_vars, arg_vars, select_vars, finalize_vars, prompts,
                   outside_tx>>

AddContract ==
    /\ tx_pc = "building"
    /\ Added < MaxAdded
    /\ \E contract_id \in ContractIds :
          BuilderBecomes(AddContractTo(Builder(inputs, outputs), contract_id),
                         "add_contract", contract_id)

AddContracts ==
    /\ tx_pc = "building"
    /\ \E contract_ids \in UpTo(MaxAdded - Added, ContractIds) :
          /\ Len(contract_ids) <= 2
          /\ BuilderBecomes(AddContractsTo(Builder(inputs, outputs), contract_ids),
                            "add_contracts", contract_ids)

AddInputs ==
    /\ tx_pc = "building"
    /\ \E added \in UpTo(MaxAdded - Added, NewInputs) :
          /\ Len(added) <= 2
          /\ BuilderBecomes(Builder(inputs \o added, outputs), "add_inputs", added)

\* ---------------------------------------------------- select_secret_key
SecretKeyOf(ix) == <<"secret", ix>>
\* DEFAULT_PRIVATE_KEY: the key of a signer that is no account of the wallet.
DefaultPrivateKey == SecretKeyOf(MaxAccountIndex + 1)
\* Address::from(*key.public_key().hash())
AddressFromKey(key) == AddressOf(key[2])

Goto(next_pc) == tx_pc' = next_pc /\ UNCHANGED tx_result
Fail(error) == tx_pc' = "returned" /\ tx_result' = [tag |-> "Err", error |-> error]
Asked(question, answer) ==
    prompts' = Append(prompts, [question |-> question, answer |-> answer])
Answers == {"yes", "no", "io_error"}

RECURSIVE SumOver(_, _)
SumOver(f, keys) ==
    IF keys = {} THEN 0
    ELSE LET k == CHOOSE j \in keys : TRUE IN f[k] + SumOver(f, keys \ {k})

RECURSIVE TotalBalance(_)
\* account_balances.iter().flat_map(|account| account.values()).sum::<u64>()
TotalBalance(balances) ==
    IF balances = <<>> THEN 0
    ELSE SumOver(Head(balances), DOMAIN Head(balances)) + TotalBalance(Tail(balances))

\* select_manual_secret_key
SelectManualSecretKey(default_signer, key) ==
    IF default_signer /\ key = None THEN Some(DefaultPrivateKey) ELSE key

\* finalize_signed is called on the builder.
CallFinalizeSigned ==
    /\ tx_pc = "building"
    /\ tx_pc' = "finalize_signed"
    /\ tx_result' = [tag |-> "None"]
    /\ UNCHANGED <<builder_vars, env_vars, arg_vars, select_vars, finalize_vars, prompts,
                   outside_tx>>

\* provider.chain_info().await? of finalize_signed
FinalizeChainInfo ==
    /\ tx_pc = "finalize_signed"
    /\ \E ok \in BOOLEAN : IF ok THEN Goto("select_secret_key") ELSE Fail("chain_info")
    /\ UNCHANGED <<builder_vars, env_vars, arg_vars, select_vars, finalize_vars, prompts,
                   outside_tx>>

\* provider.chain_info().await? of select_secret_key, and the match on the mode
SelectChainInfo ==
    /\ tx_pc = "select_secret_key"
    /\ \E ok \in BOOLEAN :
          IF ~ok THEN Fail("chain_info")
          ELSE IF wallet_mode = "ForcWallet" THEN Goto("check_and_create_wallet")
          ELSE Goto("select_manual_secret_key")
    /\ UNCHANGED <<builder_vars, env_vars, arg_vars, select_vars, finalize_vars, prompts,
                   outside_tx>>

\* check_and_create_wallet_at_default_path
CheckAndCreateWallet ==
    /\ tx_pc = "check_and_create_wallet"
    /\ IF wallet_exists
       THEN Goto("collect_user_accounts") /\ UNCHANGED <<env_vars, prompts>>
       ELSE \E accepted \in Answers :
              /\ Asked("create_wallet", accepted)
              /\ CASE accepted = "io_error" -> Fail("interact") /\ UNCHANGED env_vars
                   [] accepted = "no" ->
                        Fail("Refused to create a new wallet") /\ UNCHANGED env_vars
                   [] accepted = "yes" ->
                        \E done \in {"nothing", "wallet", "account"} :
                          /\ wallet_exists' = (done # "nothing")
                          /\ vault' = IF done = "account" THEN [ix \in {0} |-> AddressOf(ix)]
                                      ELSE vault
                          /\ UNCHANGED chain
                          /\ IF done = "account" THEN Goto("collect_user_accounts")
                             ELSE Fail("forc-wallet")
    /\ UNCHANGED <<builder_vars, arg_vars, select_vars, finalize_vars, outside_tx>>

\* collect_user_accounts
CollectUserAccounts ==
    /\ tx_pc = "collect_user_accounts"
    /\ \E ok \in BOOLEAN :
          IF ok THEN accounts' = vault /\ Goto("collect_account_balances")
          ELSE Fail("Failed to access forc-wallet vault") /\ UNCHANGED accounts
    /\ UNCHANGED <<builder_vars, env_vars, arg_vars, account_balances, base_asset_id,
                   selections, account_index, secret_key, finalize_vars, prompts,
                   outside_tx>>

\* collect_account_balances: the balances of the accounts, in key order.
CollectAccountBalances ==
    /\ tx_pc = "collect_account_balances"
    /\ \E ok \in BOOLEAN :
          IF ok
          THEN /\ account_balances' =
                    LET keys == AscendingKeys(DOMAIN accounts)
                    IN [i \in 1..Len(keys) |-> chain[keys[i]]]
               /\ Goto("total_balance")
          ELSE Fail("get_balances") /\ UNCHANGED account_balances
    /\ UNCHANGED <<builder_vars, env_vars, arg_vars, accounts, base_asset_id,
                   selections, account_index, secret_key, finalize_vars, prompts,
                   outside_tx>>

\* The total over all assets; without funds the call bails, else the
\* lines to choose from are formatted.
CheckTotalBalance ==
    /\ tx_pc = "total_balance"
    /\ IF TotalBalance(account_balances) = 0
       THEN /\ IF 0 \in DOMAIN accounts
               THEN Fail("Your wallet does not have any funds to pay for the transaction.")
               ELSE Fail("No account derived for this wallet")
            /\ UNCHANGED selections
       ELSE /\ selections' =
                  FormatBaseAssetAccountBalances(accounts, account_balances, base_asset_id)
            /\ Goto("select_account")
    /\ UNCHANGED <<builder_vars, env_vars, arg_vars, accounts, account_balances,
                   base_asset_id, account_index, secret_key, finalize_vars, prompts,
                   outside_tx>>

\* One turn of the selection loop: Select returns the position of the
\* chosen line; the loop ends when that number is a key of the accounts.
SelectAccount ==
    /\ tx_pc = "select_account"
    /\ \/ Fail("interact") /\ UNCHANGED account_index
       \/ \E chosen \in 0..(Len(selections) - 1) :
             /\ account_index' = Some(chosen)
             /\ IF chosen \in DOMAIN accounts THEN Goto("secret_key_from_forc_wallet")
                ELSE Goto("select_account")
    /\ UNCHANGED <<builder_vars, env_vars, arg_vars, accounts, account_balances,
                   base_asset_id, selections, secret_key, finalize_vars, prompts,
                   outside_tx>>

\* secret_key_from_forc_wallet
SecretKeyFromForcWallet ==
    /\ tx_pc = "secret_key_from_forc_wallet"
    /\ \E ok \in BOOLEAN :
          IF ok THEN secret_key' = Some(SecretKeyOf(Unwrap(account_index))) /\ Goto("confirm")
          ELSE Fail("derive_secret_key") /\ UNCHANGED secret_key
    /\ UNCHANGED <<builder_vars, env_vars, arg_vars, accounts, account_balances,
                   base_asset_id, selections, account_index, finalize_vars, prompts,
                   outside_tx>>

\* Variant: the key is returned whatever the answer.
ConfirmSigning_IgnoreAnswer ==
    /\ tx_pc = "confirm"
    /\ \E accepted \in Answers :
          /\ Asked("sign", accepted)
          /\ IF accepted = "io_error" THEN Fail("interact") /\ UNCHANGED selected_key
             ELSE selected_key' = secret_key /\ Goto("address")
    /\ UNCHANGED <<builder_vars, env_vars, arg_vars, select_vars, address,
                   signature_witness_index, tx, signature, outside_tx>>

\* "Do you agree to sign 1 transaction?": on yes select_secret_key
\* returns Some(secret_key) to finalize_signed.
ConfirmSigning ==
    /\ tx_pc = "confirm"
    /\ \E accepted \in Answers :
          /\ Asked("sign", accepted)
          /\ CASE accepted = "io_error" -> Fail("interact") /\ UNCHANGED selected_key
               [] accepted = "no" -> Fail("User refused to sign") /\ UNCHANGED selected_key
               [] accepted = "yes" -> selected_key' = secret_key /\ Goto("address")
    /\ UNCHANGED <<builder_vars, env_vars, arg_vars, select_vars, address,
                   signature_witness_index, tx, signature, outside_tx>>

\* WalletSelectionMode::Manual
CallSelectManualSecretKey ==
    /\ tx_pc = "select_manual_secret_key"
    /\ selected_key' = SelectManualSecretKey(default_sign, signing_key)
    /\ Goto("address")
    /\ UNCHANGED <<builder_vars, env_vars, arg_vars, select_vars, address,
                   signature_witness_index, tx, signature, prompts, outside_tx>>

\* ------------------------------------------------------- finalize_signed
\* Witness::default()
DefaultWitness == [data |-> <<>>]
OldWitness == [data |-> <<"old">>]
\* Witness::from(signature.as_ref())
WitnessFrom(sig) == [data |-> <<sig>>]
\* tx.id(): the witnesses are no part of it.
TxId(t) == [inputs |-> t.inputs, outputs |-> t.outputs]
Sign(key, message) == [signer |-> key, message |-> message]
ProviderBaseAssetId == "base"
CoinTypes == {"Coin", "Message"}

\* The address to fund from: of the key, or typed by the user.
GetAddress ==
    /\ tx_pc = "address"
    /\ IF IsSome(selected_key)
       THEN /\ address' = Some(AddressFromKey(Unwrap(selected_key)))
            /\ Goto("add_witness") /\ UNCHANGED prompts
       ELSE \E typed \in {"address", "invalid", "io_error"} :
              /\ Asked("address", typed)
              /\ IF typed = "address"
                 THEN address' = Some(AddressOf(0)) /\ Goto("add_witness")
                 ELSE Fail("prompt_address") /\ UNCHANGED address
    /\ UNCHANGED <<builder_vars, env_vars, arg_vars, select_vars, selected_key,
                   signature_witness_index, tx, signature, outside_tx>>

\* Variant: the index is taken after the dummy witness has been added.
AddDummyWitness_IndexAfter ==
    /\ tx_pc = "add_witness"
    /\ witnesses' = Append(witnesses, DefaultWitness)
    /\ signature_witness_index' = Some(Len(witnesses'))
    /\ Goto("fund")
    /\ UNCHANGED <<inputs, outputs, env_vars, arg_vars, select_vars, selected_key, address,
                   tx, signature, prompts, outside_tx>>

\* "Insert dummy witness for signature"
AddDummyWitness ==
    /\ tx_pc = "add_witness"
    /\ IF Len(witnesses) > MaxWitnessIndex
       THEN Fail("try_into") /\ UNCHANGED <<witnesses, signature_witness_index>>
       ELSE /\ signature_witness_index' = Some(Len(witnesses))
            /\ witnesses' = Append(witnesses, DefaultWitness)
            /\ Goto("fund")
    /\ UNCHANGED <<inputs, outputs, env_vars, arg_vars, select_vars, selected_key, address,
                   tx, signature, prompts, outside_tx>>

ResourceInput(coin_type, witness_index) ==
    IF coin_type = "Coin" THEN CoinInput("spendable", witness_index)
    ELSE MessageInput("spendable", witness_index)

\* fund: "Add input coin and output change"
Fund ==
    /\ tx_pc = "fund"
    /\ \/ Fail("get_spendable_resources") /\ UNCHANGED <<inputs, outputs>>
       \/ \E resources \in UpTo(2, CoinTypes) :
             /\ inputs' = inputs \o
                   [i \in 1..Len(resources) |->
                      ResourceInput(resources[i], Unwrap(signature_witness_index))]
             /\ outputs' = Append(outputs, ChangeOutput(Unwrap(address), ProviderBaseAssetId))
             /\ Goto("finalize")
    /\ UNCHANGED <<witnesses, env_vars, arg_vars, select_vars, finalize_vars, prompts,
                   outside_tx>>

\* finalize_without_signature_inner
FinalizeWithoutSignature ==
    /\ tx_pc = "finalize"
    /\ tx' = Some([inputs |-> inputs, outputs |-> outputs, witnesses |-> witnesses])
    /\ Goto("sign")
    /\ UNCHANGED <<builder_vars, env_vars, arg_vars, select_vars, selected_key, address,
                   signature_witness_index, signature, prompts, outside_tx>>

\* The signature over the transaction id: made with the key, or typed.
SignTransaction ==
    /\ tx_pc = "sign"
    /\ IF IsSome(selected_key)
       THEN /\ signature' = Some(Sign(Unwrap(selected_key), TxId(Unwrap(tx))))
            /\ Goto("replace_witness") /\ UNCHANGED prompts
       ELSE \E typed \in {"signature", "invalid", "io_error"} :
              /\ Asked("signature", typed)
              /\ IF typed = "signature"
                 THEN /\ signature' = Some(Sign(SecretKeyOf(0), TxId(Unwrap(tx))))
                      /\ Goto("replace_witness")
                 ELSE Fail("prompt_signature") /\ UNCHANGED signature
    /\ UNCHANGED <<builder_vars, env_vars, arg_vars, select_vars, selected_key, address,
                   signature_witness_index, tx, outside_tx>>

\* replace_witness: self.witnesses_mut()[index as usize] = witness
ReplaceWitnessIn(t, index, witness) ==
    [t EXCEPT !.witnesses = [t.witnesses EXCEPT ![index + 1] = witness]]

ReplaceWitness ==
    /\ tx_pc = "replace_witness"
    /\ IF Unwrap(signature_witness_index) + 1 \in DOMAIN Unwrap(tx).witnesses
       THEN /\ tx' = Some(ReplaceWitnessIn(Unwrap(tx), Unwrap(signature_witness_index),
                                          WitnessFrom(Unwrap(signature))))
            /\ Goto("precompute")
       ELSE /\ tx_pc' = "panic" /\ tx_result' = [tag |-> "Panic", call |-> "replace_witness",
                                                 arg |-> signature_witness_index]
            /\ UNCHANGED tx
    /\ UNCHANGED <<builder_vars, env_vars, arg_vars, select_vars, selected_key, address,
                   signature_witness_index, signature, prompts, outside_tx>>

\* tx.precompute(..)?; Ok(tx)
Precompute ==
    /\ tx_pc = "precompute"
    /\ \E ok \in BOOLEAN :
          IF ok THEN tx_pc' = "returned" /\ tx_result' = [tag |-> "Ok", tx |-> Unwrap(tx)]
          ELSE Fail("precompute")
    /\ UNCHANGED <<builder_vars, env_vars, arg_vars, select_vars, finalize_vars, prompts,
                   outside_tx>>

\* The balances a provider may report for the addresses of the accounts.
ChainChoices ==
    { [ix \in AccountIndices |-> <<>>],
      [ix \in AccountIndices |-> [asset \in {"base"} |-> 1]],
      [ix \in AccountIndices |->
          IF ix = 0 THEN <<>> ELSE [asset \in {"other_asset"} |-> 250000000]] }

\* A builder on which the calls are still to be made, finalize_signed
\* to be called with manual signing.
InitBuilding ==
    /\ outputs = <<>>
    /\ \/ /\ inputs = <<>>
          /\ witnesses \in {<<>>, <<OldWitness>>}
          /\ default_sign \in BOOLEAN
          /\ signing_key \in {None, Some(SecretKeyOf(0))}
       \/ /\ inputs = [k \in 1..(InputsLimit - 2) |-> OldInput]
          /\ witnesses = <<>>
          /\ default_sign = TRUE
          /\ signing_key = None
    /\ wallet_mode = "Manual"
    /\ NoWallet /\ SelectLocalsUnset /\ FinalizeLocalsUnset
    /\ tx_pc = "building" /\ NothingReturned

\* finalize_signed called with a forc-wallet, on a builder that holds a
\* contract.
InitWallet ==
    /\ inputs = <<OldInput, ContractInput("c1")>>
    /\ outputs = <<ContractOutput(1)>>
    /\ witnesses \in {<<>>, <<OldWitness>>}
    /\ wallet_exists \in BOOLEAN
    /\ vault \in IF wallet_exists THEN AccountsMaps ELSE {<<>>}
    /\ chain \in ChainChoices
    /\ wallet_mode = "ForcWallet" /\ default_sign = FALSE /\ signing_key = None
    /\ SelectLocalsUnset /\ FinalizeLocalsUnset
    /\ tx_pc = "finalize_signed" /\ NothingReturned

InitTx == InitBuilding \/ InitWallet

NextTx ==
    \/ AddContract
    \/ AddContracts
    \/ AddInputs
    \/ CallFinalizeSigned
    \/ FinalizeChainInfo
    \/ SelectChainInfo
    \/ CheckAndCreateWallet
    \/ CollectUserAccounts
    \/ CollectAccountBalances
    \/ CheckTotalBalance
    \/ SelectAccount
    \/ SecretKeyFromForcWallet
    \/ ConfirmSigning
    \/ CallSelectManualSecretKey
    \/ GetAddress
    \/ AddDummyWitness
    \/ Fund
    \/ FinalizeWithoutSignature
    \/ SignTransaction
    \/ ReplaceWitness
    \/ Precompute

InitSpecTx == InitTx /\ LoweringNotStarted /\ NamespaceNew("P", None)

SpecTx == InitSpecTx /\ [][NextTx]_vars

\* ====================================================== properties
\* Vocabulary of the properties below.
HasSelector(entry) == IsSome(entry.selector)
SelectorEntries == SelectSeq(entries, HasSelector)

\* The selector bytes [b0,b1,b2,b3] as the 64-bit word b0*2^24 + b1*2^16 +
\* b2*2^8 + b3, least significant byte first.
WidenedSelector(b) == <<b[4], b[3], b[2], b[1], 0, 0, 0, 0>>

Matches(entry, word) == HasSelector(entry) /\ WidenedSelector(Unwrap(entry.selector)) = word
SomeMatch(word) == \E k \in DOMAIN entries : Matches(entries[k], word)
FirstMatch(word) ==
    CHOOSE k \in DOMAIN entries :
        Matches(entries[k], word) /\ \A j \in 1..(k - 1) : ~Matches(entries[j], word)

OldEncodingContract == kind = "Contract" /\ ~new_encoding
NewEncodingContract == kind = "Contract" /\ new_encoding

\* The lowering has got past the dispatch step.
AfterDispatch == pc \in {"snapshot", "verify", "allocate", "done", "executed"}

\* Number of ops of the before-entries block that reach the prologue, and
\* the ops the dispatch step appended after them.
BeforeEntriesLen == Len(Optimize(before_entries, data_section0))
DispatchCode == SubSeq(prologue, 9 + BeforeEntriesLen, Len(prologue))
WithoutComments(ops) == SelectSeq(ops, LAMBDA o : o.op # "Comment")

\* C1: running the old-encoding switch of a Contract on an input word equal
\* to the widened big-endian selector of some entry jumps to the label of
\* the first entry, in entry order, whose selector matches, and to the label
\* of no other entry.
C1_DispatchFirstMatch ==
    (pc = "executed" /\ OldEncodingContract /\ SomeMatch(exec.input)) =>
        /\ exec.outcome = "jump"
        /\ exec.target = Some(entries[FirstMatch(exec.input)].label)
        /\ exec.called = <<>>
        /\ \A k \in DOMAIN entries :
               k # FirstMatch(exec.input) => exec.target # Some(entries[k].label)

\* Two entries carry the matching selector and the run has ended.
C1_Witness ==
    /\ pc = "executed" /\ OldEncodingContract
    /\ \E j, k \in DOMAIN entries :
          j < k /\ Matches(entries[j], exec.input) /\ Matches(entries[k], exec.input)
    /\ exec.outcome = "jump"

\* C2: when no selector-bearing entry matches the input word, the fallback
\* is called iff a fallback label was supplied; unless the fallback keeps
\* control the run ends in RVRT with MISMATCHED_SELECTOR_REVERT_CODE in
\* scratch; no entry label is jumped to.
C2_UnmatchedSelector ==
    (pc = "executed" /\ OldEncodingContract /\ ~SomeMatch(exec.input)) =>
        /\ exec.called = (IF IsSome(fallback_fn) THEN <<Unwrap(fallback_fn)>> ELSE <<>>)
        /\ exec.outcome \in {"revert", "diverted"}
        /\ exec.outcome = "diverted" => IsSome(fallback_fn) /\ exec.target = fallback_fn
        /\ exec.outcome = "revert" =>
               exec.code = Some(AsU64(Limbs(MISMATCHED_SELECTOR_REVERT_CODE, 4)))

\* A fallback was called, returned, and the run still ended in the revert.
C2_Witness ==
    /\ pc = "executed" /\ OldEncodingContract /\ ~SomeMatch(exec.input)
    /\ entries # <<>>
    /\ IsSome(fallback_fn) /\ exec.called = <<Unwrap(fallback_fn)>>
    /\ exec.outcome = "revert"

\* Index of the first entry named `__entry`.
FirstNamedEntry ==
    CHOOSE k \in DOMAIN entries :
        entries[k].name = "__entry" /\ \A j \in 1..(k - 1) : entries[j].name # "__entry"

\* C3: with the new encoding, kind Contract and an entry named `__entry`,
\* the dispatch step appends exactly one op, Jump to the label of that
\* entry; the prologue holds no selector load, EQ, JumpIfNotZero, Call or
\* RVRT and the data section is left as it was, whatever the fallback.
C3_NewEncodingJump ==
    (NewEncodingContract /\ \E k \in DOMAIN entries : entries[k].name = "__entry") =>
    /\ pc # "panic"
    /\ AfterDispatch =>
        /\ DispatchCode = <<Jump(entries[FirstNamedEntry].label)>>
        /\ \A k \in DOMAIN prologue :
              /\ prologue[k].op \notin {"EQ", "JumpIfNotZero", "Call", "RVRT", "LoadDataId"}
              /\ ~(prologue[k].op = "LW" /\ prologue[k].args[2] = ConstantRegister("FramePointer"))
        /\ data_section = data_section0

\* A fallback label was passed, the entry named `__entry` is not the first
\* entry, and lowering has finished.
C3_Witness ==
    /\ pc = "done" /\ NewEncodingContract
    /\ IsSome(fallback_fn)
    /\ Len(entries) > 1 /\ entries[1].name # "__entry" /\ entries[2].name = "__entry"

\* C4: lowering a new-encoding Contract that has no entry named `__entry`
\* never panics.
C4_MissingEntryNoPanic ==
    (NewEncodingContract /\ \A k \in DOMAIN entries : entries[k].name # "__entry") =>
        pc # "panic"

\* C5: build_prologue yields MOVE, Jump(L), DataSectionOffsetPlaceholder,
\* Metadata, Label(L), LW, ADD of sizes 4+4+8+32+0+4+4 = 56 bytes; the
\* metadata lies in bytes [16, 48); the placeholder is at byte 8, the word
\* the LW immediate 1 addresses from the program start held in scratch; and
\* this holds for every kind, entries, data and globals.
C5_PreambleLayout ==
    pc # "build_prologue" =>
    LET pre == SubSeq(prologue, 1, 7)
    IN /\ [k \in 1..7 |-> pre[k].op] =
             <<"MOVE", "Jump", "DataSectionOffsetPlaceholder", "Metadata", "Label", "LW", "ADD">>
       /\ pre[2].label = pre[5].label
       /\ [k \in 1..7 |-> OpSizeInBytes(pre[k])] = <<4, 4, 8, 32, 0, 4, 4>>
       /\ SizeInBytes(pre) = PRELUDE_SIZE_IN_BYTES
       /\ SizeInBytes(pre) = 56
       /\ OffsetOf(pre, 4) = PRELUDE_METADATA_OFFSET_IN_BYTES
       /\ OffsetOf(pre, 4) = 16
       /\ OffsetOf(pre, 5) = 48
       /\ OffsetOf(pre, 3) = 8
       /\ pre[1].args = <<ConstantRegister("Scratch"), ConstantRegister("ProgramCounter")>>
       /\ pre[6].args = <<ConstantRegister("DataSectionStart"), ConstantRegister("Scratch")>>
       /\ ToNat(pre[6].imm[1]) = 1
       /\ 8 * ToNat(pre[6].imm[1]) = OffsetOf(pre, 3)
       /\ pc = "globals" => prologue = pre

\* The preamble of a lowered Contract with entries, data and globals.
C5_Witness ==
    /\ pc = "done" /\ kind = "Contract"
    /\ entries # <<>> /\ data_section0 # <<>> /\ globals_section # Limbs(0, 8)
    /\ SizeInBytes(SubSeq(prologue, 1, 7)) = 56

\* Every body passes optimize, verify and allocate.
EverythingSucceeds ==
    /\ VerifyOk(Optimize(before_entries, data_section))
    /\ AllocateOk(Optimize(before_entries, data_section))
    /\ \A k \in DOMAIN AllFunctions :
          /\ VerifyOk(Optimize(AllFunctions[k], data_section))
          /\ AllocateOk(Optimize(AllFunctions[k], data_section))

\* The step about to be taken is an optimize/verify/allocate that fails.
SubStepFails ==
    \/ /\ pc = "before_entries"
       /\ ~(VerifyOk(Optimize(before_entries, data_section))
            /\ AllocateOk(Optimize(before_entries, data_section)))
    \/ /\ pc = "verify" /\ idx <= Len(AllFunctions)
       /\ ~VerifyOk(Optimize(AllFunctions[idx], data_section))
    \/ /\ pc = "allocate" /\ idx <= Len(abstract_functions)
       /\ ~AllocateOk(abstract_functions[idx])

\* C6: when optimize/verify/allocate fails for the before-entries block or
\* for a function, into_allocated_program returns an error that carries no
\* program and nothing follows; it returns Ok only if every such step
\* succeeded, and then with every function.
C6_AtomicFailure ==
    [][/\ SubStepFails =>
            /\ pc' = "err"
            /\ result'.tag = "Err"
            /\ DOMAIN result' = {"tag", "error"}
       /\ pc # "err"
       /\ result'.tag = "Ok" =>
            /\ EverythingSucceeds
            /\ Len(result'.program.functions) = Len(AllFunctions)]_vars

\* Allocation failed after an earlier function had been allocated.
C6_Witness ==
    /\ pc = "err" /\ result.tag = "Err" /\ result.error.stage = "allocate"
    /\ functions # <<>>

RECURSIVE Flatten(_)
Flatten(seqs) == IF seqs = <<>> THEN <<>> ELSE Head(seqs) \o Flatten(Tail(seqs))

\* All ops of a lowered program: the prologue, then every function.
AssembledOps(program) == program.prologue \o Flatten(program.functions)

\* C7: in every returned Allocated Program each label referenced by a Jump,
\* JumpIfNotZero or Call of the prologue has exactly one defining Label op
\* in the assembled program; a program where such a reference is dangling
\* or doubly defined is not returned.
C7_PrologueLabelsResolve ==
    pc = "done" =>
        \A k \in DOMAIN result.program.prologue :
            IsLabelRef(result.program.prologue[k]) =>
                LabelDefCount(AssembledOps(result.program),
                              Unwrap(result.program.prologue[k].label)) = 1

\* An op that only the dispatch step emits.
IsDispatchOp(o) ==
    \/ o.op \in {"Comment", "LoadDataId", "EQ", "JumpIfNotZero", "Call", "RVRT"}
    \/ o.op = "LW" /\ o.args[2] = ConstantRegister("FramePointer")
    \/ o.op = "MOVI" /\ o.args[1] = ConstantRegister("Scratch")
    \/ o.op = "Jump" /\ o.label # prologue[5].label

\* C8: the prologue is the 56-byte preamble, then exactly one CFEI for the
\* globals, then the allocated before-entries ops, then the dispatch code;
\* the CFEI is in place before any before-entries op is appended, and the
\* before-entries ops before any dispatch op.
C8_PrologueOrder ==
    /\ pc = "before_entries" =>
          /\ Len(prologue) = 8
          /\ SizeInBytes(SubSeq(prologue, 1, 7)) = PRELUDE_SIZE_IN_BYTES
          /\ prologue[8].op = "CFEI"
    /\ pc = "dispatch" => Len(prologue) = 8 + BeforeEntriesLen
    /\ pc \in {"dispatch", "abi_switch"} \/ AfterDispatch =>
          /\ SizeInBytes(SubSeq(prologue, 1, 7)) = PRELUDE_SIZE_IN_BYTES
          /\ \A k \in 1..7 : prologue[k].op # "CFEI" /\ ~IsDispatchOp(prologue[k])
          /\ prologue[8].op = "CFEI"
          /\ Cardinality({k \in DOMAIN prologue : prologue[k].op = "CFEI"}) = 1
          /\ SubSeq(prologue, 9, 8 + BeforeEntriesLen) =
                 AllocateRegisters(Optimize(before_entries, data_section0))
          /\ \A k \in 9..(8 + BeforeEntriesLen) : ~IsDispatchOp(prologue[k])
          /\ \A k \in (9 + BeforeEntriesLen)..Len(prologue) : IsDispatchOp(prologue[k])

\* A lowered Contract with before-entries code and a switch.
C8_Witness ==
    /\ pc = "done" /\ OldEncodingContract
    /\ before_entries # <<>>
    /\ Len(SelectorEntries) > 0

OpsNamed(ops, name) == SelectSeq(ops, LAMBDA o : o.op = name)

\* C9: the old-encoding switch skips an entry without a selector: no data
\* word and no case for it, its label is no dispatch target and no input
\* word reaches it; the cases are those of the selector-bearing entries
\* alone, in their order.
C9_SelectorlessSkipped ==
    (AfterDispatch /\ OldEncodingContract) =>
    LET loads == OpsNamed(DispatchCode, "LoadDataId")
        jumps == OpsNamed(DispatchCode, "JumpIfNotZero")
    IN /\ Len(data_section) - Len(data_section0) <= Len(SelectorEntries)
       /\ \A d \in (Len(data_section0) + 1)..Len(data_section) :
             \E e \in DOMAIN SelectorEntries :
                data_section[d] = WidenedSelector(Unwrap(SelectorEntries[e].selector))
       /\ Len(OpsNamed(DispatchCode, "EQ")) = Len(SelectorEntries)
       /\ [k \in DOMAIN jumps |-> Unwrap(jumps[k].label)] =
             [k \in DOMAIN SelectorEntries |-> SelectorEntries[k].label]
       /\ [k \in DOMAIN loads |-> data_section[Unwrap(loads[k].data) + 1]] =
             [k \in DOMAIN SelectorEntries |->
                 WidenedSelector(Unwrap(SelectorEntries[k].selector))]
       /\ \A e \in DOMAIN entries :
             ~HasSelector(entries[e]) =>
                /\ \A k \in DOMAIN prologue : prologue[k].label # Some(entries[e].label)
                /\ pc = "executed" => exec.target # Some(entries[e].label)

\* An entry without a selector precedes one with a selector, and a call
\* with that selector was dispatched.
C9_Witness ==
    /\ pc = "executed" /\ OldEncodingContract
    /\ Len(entries) > 1 /\ ~HasSelector(entries[1]) /\ HasSelector(entries[2])
    /\ exec.outcome = "jump"

\* The j-th op of the switch for the given selector-bearing entries, with
\* the data ids left out.
ExpectedSwitchOp(es, fb, j) ==
    LET k == Len(es)
        e == es[((j - 2) \div 3) + 1]
    IN IF j = 1
       THEN Opcode("LW", <<Allocated(0), ConstantRegister("FramePointer")>>, <<Limbs(73, 2)>>)
       ELSE IF j <= 1 + 3 * k
       THEN CASE (j - 2) % 3 = 0 -> Opcode("LoadDataId", <<Allocated(1)>>, <<>>)
              [] (j - 2) % 3 = 1 -> Opcode("EQ", <<Allocated(2), Allocated(0), Allocated(1)>>, <<>>)
              [] (j - 2) % 3 = 2 -> JumpIfNotZero(Allocated(2), e.label)
       ELSE IF j = 2 + 3 * k /\ IsSome(fb) THEN Call(Unwrap(fb))
       ELSE IF j = Len(fb) + 2 + 3 * k
       THEN Opcode("MOVI", <<ConstantRegister("Scratch")>>,
                   <<Limbs(MISMATCHED_SELECTOR_REVERT_CODE, 4)>>)
       ELSE Opcode("RVRT", <<ConstantRegister("Scratch")>>, <<>>)

\* C10: for k selector-bearing entries the switch is one LW of the frame
\* word 73 (also when k = 0), then k blocks LoadDataId, EQ, JumpIfNotZero to
\* the entry label in entry order, then Call(fallback) iff one was
\* supplied, then MOVI scratch, MISMATCHED_SELECTOR_REVERT_CODE and RVRT.
C10_SwitchShape ==
    (AfterDispatch /\ OldEncodingContract) =>
    LET code == WithoutComments(DispatchCode)
        n == 3 + 3 * Len(SelectorEntries) + Len(fallback_fn)
    IN /\ Len(code) = n
       /\ \A j \in 1..n :
             [code[j] EXCEPT !.data = None] = ExpectedSwitchOp(SelectorEntries, fallback_fn, j)
       /\ Len(OpsNamed(prologue, "RVRT")) = 1
       /\ Len(OpsNamed(prologue, "Call")) = Len(fallback_fn)

\* A switch of two cases with a fallback.
C10_Witness ==
    /\ pc = "done" /\ OldEncodingContract
    /\ Len(SelectorEntries) = 2 /\ Len(entries) = 2
    /\ IsSome(fallback_fn)

\* C11: the data word loaded by the comparison block of the k-th
\* selector-bearing entry is b0*2^24 + b1*2^16 + b2*2^8 + b3 of its selector
\* [b0,b1,b2,b3], zero-extended to 64 bits; the words of two entries are
\* equal only if their selectors are equal byte for byte.
C11_SelectorConstant ==
    (AfterDispatch /\ OldEncodingContract) =>
    LET loads == OpsNamed(DispatchCode, "LoadDataId")
        word(k) == data_section[Unwrap(loads[k].data) + 1]
    IN /\ Len(loads) = Len(SelectorEntries)
       /\ \A k \in DOMAIN loads :
             LET b == Unwrap(SelectorEntries[k].selector)
             IN /\ Len(word(k)) = 8
                /\ SubSeq(word(k), 1, 4) = <<b[4], b[3], b[2], b[1]>>
                /\ SubSeq(word(k), 5, 8) = <<0, 0, 0, 0>>
       /\ \A j, k \in DOMAIN loads :
             word(j) = word(k) => SelectorEntries[j].selector = SelectorEntries[k].selector

\* Two entries whose selectors are each other's byte reversal have been
\* given their cases.
C11_Witness ==
    /\ pc = "done" /\ OldEncodingContract
    /\ Len(SelectorEntries) = 2
    /\ Unwrap(SelectorEntries[1].selector) = <<0, 0, 0, 1>>
    /\ Unwrap(SelectorEntries[2].selector) = <<1, 0, 0, 0>>

\* C12: for kind Script, Predicate or Library, with either encoding flag and
\* with or without a fallback, the prologue is the preamble, the globals
\* reservation and the before-entries code and nothing else: no jump, no
\* switch, no fallback call, no revert; running it falls through.
C12_NoDispatchForOtherKinds ==
    kind # "Contract" =>
        /\ pc \notin {"abi_switch", "panic"}
        /\ AfterDispatch =>
              /\ Len(prologue) = 8 + BeforeEntriesLen
              /\ DispatchCode = <<>>
              /\ \A k \in DOMAIN prologue : ~IsDispatchOp(prologue[k])
              /\ Len(OpsNamed(prologue, "Jump")) = 1
              /\ data_section = data_section0
        /\ pc = "executed" => exec.outcome = "fallthrough" /\ exec.called = <<>>

\* A Script with the old encoding, a fallback label and an entry carrying a
\* selector has been lowered and run.
C12_Witness ==
    /\ pc = "executed" /\ kind = "Script" /\ ~new_encoding
    /\ IsSome(fallback_fn)
    /\ Len(SelectorEntries) > 0
    /\ before_entries # <<>>

\* The lowering has returned Ok.
Lowered == pc \in {"done", "executed"}

\* C13: on success the output's entries list has the length and order of
\* the input entries and its i-th element is (selector, label, name,
\* test_decl_ref) of the i-th input entry, for every kind, flag and
\* fallback, entries without selector included.
C13_EntryMetadataUnchanged ==
    Lowered =>
        /\ Len(result.program.entries) = Len(entries)
        /\ \A i \in DOMAIN entries :
              /\ DOMAIN result.program.entries[i] = {"selector", "label", "name", "test_decl_ref"}
              /\ result.program.entries[i].selector = entries[i].selector
              /\ result.program.entries[i].label = entries[i].label
              /\ result.program.entries[i].name = entries[i].name
              /\ result.program.entries[i].test_decl_ref = entries[i].test_decl_ref

\* A lowered old-encoding Contract whose first entry is a test (no
\* selector, a test declaration) and whose second carries a selector.
C13_Witness ==
    /\ pc = "done" /\ OldEncodingContract /\ IsSome(fallback_fn)
    /\ Len(entries) = 2
    /\ ~HasSelector(entries[1]) /\ IsSome(entries[1].test_decl_ref)
    /\ HasSelector(entries[2])

\* The i-th input function of entries ++ non_entries.
InputFunction(i) ==
    IF i <= Len(entries) THEN entries[i].ops ELSE non_entries[i - Len(entries)]

\* The label a function body starts with.
LabelsDefined(ops) == {Unwrap(ops[k].label) : k \in {j \in DOMAIN ops : IsLabelDef(ops[j])}}

\* C14: on success the output's functions list has length (entries +
\* non-entry functions); output function i is the lowered body of input
\* function i of entries ++ non_entries: entries first, in entry order,
\* then the non-entry functions in their order.
C14_FunctionOrder ==
    Lowered =>
        /\ Len(result.program.functions) = Len(entries) + Len(non_entries)
        /\ \A i \in 1..(Len(entries) + Len(non_entries)) :
              /\ LabelsDefined(result.program.functions[i]) = LabelsDefined(InputFunction(i))
              /\ result.program.functions[i] =
                    EmitPushaPopa(AllocateRegisters(Optimize(InputFunction(i), data_section)))
        /\ \A i \in DOMAIN entries :
              LabelsDefined(result.program.functions[i]) = {entries[i].label}

\* Two entries and a non-entry function have been lowered.
C14_Witness ==
    /\ pc = "done"
    /\ Len(entries) = 2 /\ Len(non_entries) > 0

FunctionCount == Len(entries) + Len(non_entries)
FailsVerify(ops) == ~VerifyOk(Optimize(ops, data_section))
FailsAllocate(ops) == ~AllocateOk(Optimize(ops, data_section))
First(S) == CHOOSE i \in S : \A j \in S : i <= j

\* The error of the earliest failing sub-step in pipeline order: the
\* before-entries block (verify, then allocate), then verification of the
\* functions in order, then their allocation in order.
FirstFailure ==
    IF FailsVerify(before_entries) THEN [stage |-> "verify", fn |-> 0]
    ELSE IF FailsAllocate(before_entries) THEN [stage |-> "allocate", fn |-> 0]
    ELSE IF \E i \in 1..FunctionCount : FailsVerify(InputFunction(i))
    THEN [stage |-> "verify", fn |-> First({i \in 1..FunctionCount : FailsVerify(InputFunction(i))})]
    ELSE [stage |-> "allocate",
          fn |-> First({i \in 1..FunctionCount : FailsAllocate(InputFunction(i))})]

\* C15: the error a failing lowering returns is that of the earliest failing
\* sub-step in pipeline order, and no later sub-step has run: a failure of
\* the before-entries block leaves no dispatch code and no function
\* processed, a verification failure leaves no function allocated (so it
\* wins over an allocation failure of an earlier function), an allocation
\* failure leaves no later function allocated.
C15_FirstFailureWins ==
    pc = "err" =>
        /\ result.tag = "Err"
        /\ result.error = FirstFailure
        /\ result.error.fn = 0 =>
              /\ Len(prologue) = 8
              /\ entries_meta = <<>> /\ abstract_functions = <<>> /\ functions = <<>>
        /\ (result.error.fn > 0 /\ result.error.stage = "verify") =>
              /\ Len(abstract_functions) = result.error.fn - 1
              /\ functions = <<>>
        /\ (result.error.fn > 0 /\ result.error.stage = "allocate") =>
              /\ Len(abstract_functions) = FunctionCount
              /\ Len(functions) = result.error.fn - 1

\* The second function failed verification and that is the error returned,
\* although the first function cannot be allocated.
C15_Witness ==
    /\ pc = "err"
    /\ result.error = [stage |-> "verify", fn |-> 2]
    /\ FailsAllocate(InputFunction(1))

IsPrefix(a, b) == Len(a) <= Len(b) /\ SubSeq(b, 1, Len(a)) = a

\* The only step that changes the data section: one case of the old-encoding
\* contract switch appending the widened selector of the entry it handles.
AppendsSelectorWord ==
    /\ pc = "abi_switch"
    /\ OldEncodingContract
    /\ idx \in DOMAIN entries
    /\ HasSelector(entries[idx])
    /\ data_section' = Append(data_section, WidenedSelector(Unwrap(entries[idx].selector)))

DataSectionFollowsInput ==
    /\ IsPrefix(data_section0, data_section)
    /\ ~OldEncodingContract => data_section = data_section0
    /\ pc \in {"build_prologue", "globals", "before_entries", "dispatch"} =>
          data_section = data_section0
    /\ Lowered =>
          /\ result.program.data_section = data_section
          /\ ~OldEncodingContract => result.program.data_section = data_section0

\* C16: the data section changes only when a case of the old-encoding
\* contract switch appends a selector word; it is the same from the first
\* function optimized to the program returned, whose data section it is; and
\* without the old-encoding switch the output data section is the input one.
C16_DataSectionMutation ==
    /\ []DataSectionFollowsInput
    /\ [][(data_section' # data_section) => AppendsSelectorWord]_vars
    /\ [][(pc \in {"snapshot", "verify", "allocate", "done"}) =>
              (data_section' = data_section)]_vars

\* A lowered old-encoding contract whose switch added selector words, which
\* the program returned carries.
C16_Witness ==
    /\ Lowered
    /\ OldEncodingContract
    /\ Len(data_section) > Len(data_section0)
    /\ result.program.data_section = data_section
    /\ Len(result.program.functions) > 0

\* is_empty has returned.
IsEmptyReturned == pc = "build_prologue" /\ result.tag = "Bool"

\* C17: is_empty returns true iff the program has no entry, no non-entry
\* function and no data value; with exactly one of the three present it
\* returns false; kind, globals size, flags, fallback and before-entries
\* block have no part in the result.
C17_Emptiness ==
    IsEmptyReturned =>
        /\ result.value \in BOOLEAN
        /\ result.value <=>
              (Len(entries) = 0 /\ Len(non_entries) = 0 /\ Len(data_section0) = 0)
        /\ Len(entries) + Len(non_entries) + Len(data_section0) = 1 => ~result.value

\* is_empty returned false for a program whose only content is one data
\* value.
C17_Witness ==
    /\ IsEmptyReturned
    /\ entries = <<>> /\ non_entries = <<>> /\ before_entries = <<>>
    /\ Len(data_section0) = 1
    /\ result.value = FALSE

\* C18: whenever is_empty returns true the program holds no instruction at
\* all: the before-entries block is empty as well as the entries and the
\* non-entry functions.
C18_EmptyHasNoInstructions ==
    (IsEmptyReturned /\ result.value) =>
        /\ entries = <<>>
        /\ non_entries = <<>>
        /\ before_entries = <<>>

\* C19: the immediate of the one CFEI of the prologue is the byte length of
\* the globals section, for every length.
C19_GlobalsReservationExact ==
    pc \notin {"build_prologue", "globals"} =>
        /\ prologue[8].op = "CFEI"
        /\ AsU64(prologue[8].imm[1]) = LenInBytes(globals_section)

NamesVirtual(o) == \E a \in DOMAIN o.args : o.args[a].kind = "Virtual"
IsSaveRestore(o) == o.op \in {"PUSHA", "POPA"}
RegistersNamed(ops) == UNION {{ops[k].args[a] : a \in DOMAIN ops[k].args} : k \in DOMAIN ops}

\* C20: every function of the program returned is PUSHA, the allocated
\* body, POPA: the body is the input function's optimized body with no
\* virtual register left and no save/restore inside, and the save/restore
\* names the allocated registers of the body, so it was made after the
\* allocation.  The prologue, before-entries code included, names no
\* virtual register and holds no save/restore.
C20_CalleeSaveWrapping ==
    Lowered =>
        /\ \A i \in DOMAIN result.program.functions :
              LET f == result.program.functions[i]
                  body == SubSeq(f, 2, Len(f) - 1)
                  input == Optimize(InputFunction(i), data_section)
              IN /\ Len(f) >= 2
                 /\ f[1].op = "PUSHA" /\ f[Len(f)].op = "POPA"
                 /\ f[1].args = f[Len(f)].args
                 /\ {f[1].args[a] : a \in DOMAIN f[1].args} =
                       {r \in RegistersNamed(body) : r.kind = "Allocated"}
                 /\ [k \in DOMAIN body |-> body[k].op] = [k \in DOMAIN input |-> input[k].op]
                 /\ \A k \in DOMAIN body : ~NamesVirtual(body[k]) /\ ~IsSaveRestore(body[k])
        /\ \A k \in DOMAIN result.program.prologue :
              /\ ~IsSaveRestore(result.program.prologue[k])
              /\ ~NamesVirtual(result.program.prologue[k])
        /\ Len(OpsNamed(Flatten(result.program.functions), "PUSHA")) = FunctionCount
        /\ Len(OpsNamed(Flatten(result.program.functions), "POPA")) = FunctionCount
        /\ [k \in 1..BeforeEntriesLen |-> result.program.prologue[8 + k].op] =
              [k \in 1..BeforeEntriesLen |-> Optimize(before_entries, data_section0)[k].op]

\* An entry and a non-entry function, each saving a register, and
\* before-entries code have been lowered.
C20_Witness ==
    /\ pc = "done"
    /\ entries # <<>> /\ non_entries # <<>> /\ before_entries # <<>>
    /\ \A i \in DOMAIN result.program.functions :
          /\ result.program.functions[i][1].op = "PUSHA"
          /\ result.program.functions[i][1].args # <<>>
    /\ \E k \in DOMAIN result.program.prologue :
          \E a \in DOMAIN result.program.prologue[k].args :
              result.program.prologue[k].args[a].kind = "Allocated"

\* The ops between the first and the last that name the register.
LiveRange(ops, r) ==
    LET named == {k \in DOMAIN ops : \E a \in DOMAIN ops[k].args : ops[k].args[a] = r}
    IN {k \in DOMAIN ops : (\E j \in named : j <= k) /\ (\E j \in named : k <= j)}

IsStrictPrefix(a, b) == Len(a) < Len(b) /\ SubSeq(b, 1, Len(a)) = a

\* C22: module_is_submodule_of returns true when the module named by the
\* absolute path is a strict ancestor of the current module, true_if_same
\* when it is the current module, and false otherwise.
C22_ModuleIsSubmoduleOf ==
    (ns_pc = "ready" /\ last_call.op = "module_is_submodule_of") =>
        LET absolute_module_path == last_call.arg[1]
            true_if_same == last_call.arg[2]
        IN last_call.value =
              IF absolute_module_path = current_mod_path THEN true_if_same
              ELSE IsStrictPrefix(absolute_module_path, current_mod_path)

\* C23: the current module path is never empty and starts with the name of
\* the current package.
C23_PathIsAbsolute ==
    ns_pc = "ready" =>
        /\ current_mod_path # <<>>
        /\ current_mod_path[1] = CurrentPackageName(root)

\* C25: push_new_submodule(name) appends name to the current module path,
\* and a pop_submodule that follows it gives the path before the push.
C25_PushPopRoundTrip ==
    /\ [][(ns_pc' = "ready" /\ last_call'.op = "push_new_submodule") =>
              (current_mod_path' = Append(current_mod_path, last_call'.arg))]_vars
    /\ [][(last_call.op = "push_new_submodule" /\ last_call'.op = "pop_submodule") =>
              (current_mod_path' = last_call.value)]_vars

\* The i-th smallest index of the accounts map.
NthAccount(i) ==
    CHOOSE ix \in DOMAIN accounts : Cardinality({j \in DOMAIN accounts : j < ix}) = i - 1

\* The number of units the digits after the point stand for.
FractionUnits(digits) ==
    LET RECURSIVE Sum(_)
        Sum(k) == IF k = 0 THEN 0 ELSE digits[k] * 10 ^ (9 - k) + Sum(k - 1)
    IN Sum(Len(digits))

\* Line i of the output is that of the i-th account in index order and the
\* i-th balance map: its index, its address, and the base-asset amount of
\* that map in ETH, 0 without the base asset.
LineIsOfAccount(i) ==
    LET line == selections[i]
        ix == NthAccount(i)
        balance == account_balances[i]
        amount == IF base_asset_id \in DOMAIN balance THEN balance[base_asset_id] ELSE 0
    IN /\ line[2] = ix
       /\ line[4] = accounts[ix]
       /\ line[6].whole * UnitsPerEth + FractionUnits(line[6].fraction) = amount
       /\ Len(line[6].fraction) <= 9
       /\ line[6].fraction # <<>> => line[6].fraction[Len(line[6].fraction)] # 0
       /\ <<line[1], line[3], line[5], line[7]>> = <<"[", "] ", " - ", " ETH">>

\* C24 as stated: one line per account of the accounts map, in ascending
\* index order, each showing the account's index, address and base-asset
\* amount only.
C24_OneLinePerAccount ==
    tx_pc = "formatted" =>
        /\ Len(selections) = Cardinality(DOMAIN accounts)
        /\ \A i \in 1..Len(selections) : LineIsOfAccount(i)

\* C24 amended: one line per account that has a balance map, that is as
\* many lines as the shorter of the accounts map and the balance list has
\* elements, in ascending index order, each showing the account's index,
\* address and base-asset amount only.
C24_OneLinePerPair ==
    tx_pc = "formatted" =>
        /\ Len(selections) = Min(Cardinality(DOMAIN accounts), Len(account_balances))
        /\ \A i \in 1..Len(selections) : LineIsOfAccount(i)
        /\ tx_result.value = selections

\* Accounts 0 and 2 were formatted: the first holds both assets, the second
\* only the other asset and is shown with 0.
C24_Witness ==
    /\ tx_pc = "formatted"
    /\ DOMAIN accounts = {0, 2}
    /\ Len(account_balances) = 2
    /\ DOMAIN account_balances[1] = Assets
    /\ DOMAIN account_balances[2] = Assets \ {base_asset_id}
    /\ Len(selections) = 2
    /\ selections[2][2] = 2
    /\ selections[2][6] = [whole |-> 0, fraction |-> <<>>]


IsPrefixOf(shorter, longer) ==
    /\ Len(shorter) <= Len(longer)
    /\ SubSeq(longer, 1, Len(shorter)) = shorter

\* A call of the builder that returned, with its name.
BuilderCallReturned(call) ==
    /\ tx_pc = "building" /\ tx_pc' = "building"
    /\ tx_result'.tag = "Self" /\ tx_result'.call = call

\* Every contract output names the place of a contract input.
ContractOutputsPointAtContractInputs ==
    \A k \in DOMAIN outputs :
       (outputs[k].type = "Contract") =>
          /\ outputs[k].input_index + 1 \in DOMAIN inputs
          /\ inputs[outputs[k].input_index + 1].type = "Contract"

\* C27: a call of add_contract that returns appends exactly one contract
\* input and one contract output whose input_index is the number of inputs
\* before the call; add_contracts does so for each id in turn; no call of
\* add_contract, add_contracts or add_inputs moves or changes an input or
\* output that is already there, so that every contract output keeps
\* pointing at the contract input added with it.
C27_ContractIndexConsistency ==
    /\ [][BuilderCallReturned("add_contract") =>
            (/\ inputs' = Append(inputs, ContractInput(tx_result'.arg))
             /\ outputs' = Append(outputs, ContractOutput(Len(inputs))))]_vars
    /\ [][BuilderCallReturned("add_contracts") =>
            (LET contract_ids == tx_result'.arg
             IN /\ Len(inputs') = Len(inputs) + Len(contract_ids)
                /\ Len(outputs') = Len(outputs) + Len(contract_ids)
                /\ \A i \in DOMAIN contract_ids :
                     /\ inputs'[Len(inputs) + i] = ContractInput(contract_ids[i])
                     /\ outputs'[Len(outputs) + i] =
                          ContractOutput(Len(inputs) + i - 1))]_vars
    /\ [][(tx_pc = "building") =>
            (IsPrefixOf(inputs, inputs') /\ IsPrefixOf(outputs, outputs'))]_vars
    /\ []((tx_pc = "building") => ContractOutputsPointAtContractInputs)

\* add_contract has returned on a builder that holds two contracts and
\* an input that is no contract before the second of them.
C27_Witness ==
    /\ tx_pc = "building"
    /\ tx_result.tag = "Self" /\ tx_result.call = "add_contract"
    /\ Len(outputs) = 2
    /\ outputs[2].input_index = 2
    /\ inputs[2].type = "Coin"

\* The steps of finalize_signed once select_secret_key has returned.
FinalizeSteps ==
    <<"address", "add_witness", "fund", "finalize", "sign", "replace_witness", "precompute">>
FinalizeRank(at) == CHOOSE i \in DOMAIN FinalizeSteps : FinalizeSteps[i] = at
InFinalizeSteps(at) == \E i \in DOMAIN FinalizeSteps : FinalizeSteps[i] = at
Step(from, to) == tx_pc = from /\ tx_pc' = to

\* An input that fund has made of a spendable resource.
FromFund(input) ==
    \E coin_type \in CoinTypes :
       input = ResourceInput(coin_type, Unwrap(signature_witness_index))

\* What has been done when a step is reached.
DoneBefore(at) ==
    LET rank == FinalizeRank(at)
    IN /\ (rank >= 3) = IsSome(signature_witness_index)
       /\ (rank >= 2) = IsSome(address)
       /\ (rank >= 5) = IsSome(tx)
       /\ (rank >= 6) = IsSome(signature)
       /\ (rank = 3) => (witnesses[Len(witnesses)] = DefaultWitness
                         /\ \A k \in DOMAIN inputs : ~FromFund(inputs[k]))
       /\ (rank >= 4) => (outputs[Len(outputs)].type = "Change")
       /\ (rank \in {5, 6}) => (Unwrap(tx).witnesses = witnesses)
       /\ (rank = 7) => (Unwrap(tx).witnesses # witnesses)

\* The transaction is the builder's, but for the witness at index.
OnlyWitnessReplaced(t, index, witness) ==
    /\ t.inputs = inputs /\ t.outputs = outputs
    /\ Len(t.witnesses) = Len(witnesses)
    /\ \A k \in DOMAIN witnesses :
         t.witnesses[k] = IF k = index + 1 THEN witness ELSE witnesses[k]

\* C26: finalize_signed records as the signature's witness index the
\* number of witnesses present before it appends the dummy witness; every
\* input fund adds is a coin or message input that names this index; the
\* transaction returned differs from the builder only in the witness at
\* this index, which is the signature over the transaction's id; the steps
\* run in the order select key, append dummy witness, fund, finalize, sign,
\* replace; and a step that fails returns an error that holds no
\* transaction.
C26_SignaturePlacement ==
    /\ [][Step("add_witness", "fund") =>
            (/\ signature_witness_index' = Some(Len(witnesses))
             /\ witnesses' = Append(witnesses, DefaultWitness))]_vars
    /\ [][Step("fund", "finalize") =>
            (/\ IsPrefixOf(inputs, inputs') /\ witnesses' = witnesses
             /\ \A k \in (Len(inputs) + 1)..Len(inputs') :
                  /\ inputs'[k].type \in CoinTypes
                  /\ inputs'[k].witness_index = Unwrap(signature_witness_index))]_vars
    /\ [][Step("replace_witness", "precompute") =>
            OnlyWitnessReplaced(Unwrap(tx'), Unwrap(signature_witness_index),
                                WitnessFrom(Unwrap(signature)))]_vars
    /\ []((tx_result.tag = "Ok") =>
            (/\ OnlyWitnessReplaced(tx_result.tx, Unwrap(signature_witness_index),
                                    WitnessFrom(Unwrap(signature)))
             /\ Unwrap(signature).message = TxId(tx_result.tx)
             /\ Unwrap(signature_witness_index) + 1 = Len(witnesses)))
    /\ [][(InFinalizeSteps(tx_pc) /\ tx_pc' # tx_pc) =>
            (\/ tx_pc' = "returned"
             \/ InFinalizeSteps(tx_pc') /\ FinalizeRank(tx_pc') = FinalizeRank(tx_pc) + 1)]_vars
    /\ [](InFinalizeSteps(tx_pc) => DoneBefore(tx_pc))
    /\ [][(tx_pc' = "returned" /\ tx_pc # "returned") =>
            IF tx_result'.tag = "Ok" THEN tx_pc = "precompute"
            ELSE tx_result'.tag = "Err" /\ DOMAIN tx_result' = {"tag", "error"}]_vars

\* A signed transaction has been returned for a builder that held a
\* witness before: the signature is its second witness, named by the
\* inputs fund added.
C26_Witness ==
    /\ tx_pc = "returned" /\ tx_result.tag = "Ok"
    /\ Len(tx_result.tx.witnesses) = 2
    /\ tx_result.tx.witnesses[1] = OldWitness
    /\ tx_result.tx.witnesses[2] = WitnessFrom(Unwrap(signature))
    /\ signature_witness_index = Some(1)
    /\ \E k \in DOMAIN inputs : inputs[k] = CoinInput("spendable", 1)

\* select_secret_key has returned a key of the forc-wallet.
ForcWalletKeyReturned == wallet_mode = "ForcWallet" /\ IsSome(selected_key)

Answered(question, answer) ==
    \E k \in DOMAIN prompts : prompts[k] = [question |-> question, answer |-> answer]
AnswersNow(question, answer) ==
    prompts' = Append(prompts, [question |-> question, answer |-> answer])
ErrAndNoKey == tx_pc' = "returned" /\ tx_result'.tag = "Err" /\ selected_key' = None

\* The errors select_secret_key raises for a refusal or a wallet without
\* funds.
RefusalErrors ==
    {"Refused to create a new wallet", "User refused to sign",
     "Your wallet does not have any funds to pay for the transaction.",
     "No account derived for this wallet"}

\* C28: when select_secret_key returns a key in ForcWallet mode, the wallet
\* exists, having been there or been created after a yes to the question,
\* the balances of the accounts over all assets are not zero in total, the
\* account index chosen is a key of the accounts map, the key is the one
\* derived at this index, and the user has answered yes to the signing
\* question; a choice that is no key of the accounts map repeats the
\* selection; a no to creating the wallet, a zero total, and a no to
\* signing each end in an error, and no key is returned.
C28_KeyOnlyAfterChecks ==
    /\ [](ForcWalletKeyReturned =>
            (/\ wallet_exists
             /\ ~Answered("create_wallet", "no") /\ ~Answered("create_wallet", "io_error")
             /\ TotalBalance(account_balances) # 0
             /\ IsSome(account_index)
             /\ Unwrap(account_index) \in DOMAIN accounts
             /\ selected_key = Some(SecretKeyOf(Unwrap(account_index)))
             /\ Answered("sign", "yes")
             /\ ~Answered("sign", "no")))
    /\ [][(tx_pc = "select_account" /\ account_index' # account_index
             /\ Unwrap(account_index') \notin DOMAIN accounts) =>
            (tx_pc' = "select_account")]_vars
    /\ [][AnswersNow("create_wallet", "no") => ErrAndNoKey]_vars
    /\ [][(tx_pc = "total_balance" /\ TotalBalance(account_balances) = 0
             /\ tx_pc' # tx_pc) => ErrAndNoKey]_vars
    /\ [][AnswersNow("sign", "no") => ErrAndNoKey]_vars
    /\ []((tx_result.tag = "Err" /\ tx_result.error \in RefusalErrors) =>
            (selected_key = None))

\* A key has been returned for account 1 of a wallet that was there and
\* has no account 0, after a yes to the signing question.
C28_Witness ==
    /\ ForcWalletKeyReturned
    /\ tx_pc = "address"
    /\ prompts = <<[question |-> "sign", answer |-> "yes"]>>
    /\ 0 \notin DOMAIN accounts
    /\ selected_key = Some(SecretKeyOf(1))
====
